---- MODULE Spec2Model ----
(***************************************************************************)
(* Bet lifecycle engine of diet-NFL-betting: placement, cancellation and   *)
(* settlement of bets against the ledger (users, games, bets,              *)
(* transactions), as implemented by app/services/bet_validator.py,         *)
(* app/services/bet_service.py, app/services/settlement_service.py,        *)
(* app/routes/admin.py and app/services/espn_service.py.                   *)
(*                                                                         *)
(* Money is counted in whole units of 1/UnitsPerDollar dollar (the code    *)
(* uses floats, which admit amounts below one dollar).  Time is counted in *)
(* minutes.  No code reads the value of Bet.settled_at, so the model        *)
(* records only whether it is None or set.                                 *)
(***************************************************************************)
EXTENDS Integers, Sequences, FiniteSets, TLC

\* ------------------------------------------------------------------ bounds
NumUsers == 2
NumGames == 1
MaxBets == 2
MaxWager == 2
InitialBalance == 3
GameTime == 10
UnitsPerDollar == 2

\* ------------------------------------------------------- program constants
CutoffMinutes == 5
MinutesPerDay == 1440
StaleDays == 1
PayoutMultiplier == 2
ValidatorMultiplier == 2
MinBetDollars == 1
MinBetAmount == MinBetDollars * UnitsPerDollar

Users == 1..NumUsers
Games == 1..NumGames
\* the wager amounts the placement requests carry
Wagers == {MaxWager}

\* game.home_team and game.away_team, and a name that is neither
HomeTeam == "H"
AwayTeam == "A"
OtherTeam == "X"
TeamInputs == {HomeTeam, AwayTeam, OtherTeam}

\* Python None for winner and transaction.bet_id; settled_at is None or set
NoTeam == "none"
NoBet == 0
NoTime == "None"
SomeTime == "set"

\* Column DateTime() carries no timezone: a game_time loaded from the store
\* is a naive datetime (the synchronizer strips tzinfo before storing).
GameTimeIsNaive == TRUE

\* the instants the clock visits
TimePoints ==
    { GameTime - CutoffMinutes - 1, GameTime - CutoffMinutes, GameTime,
      GameTime + (StaleDays + 1) * MinutesPerDay }

\* provider events as produced by _parse_single_game: status name and scores
ProviderEvents ==
    { [status |-> "Scheduled", home_score |-> 0, away_score |-> 0],
      [status |-> "In Progress", home_score |-> 1, away_score |-> 0],
      [status |-> "Final", home_score |-> 1, away_score |-> 0],
      [status |-> "Final", home_score |-> 0, away_score |-> 1],
      [status |-> "Final", home_score |-> 1, away_score |-> 1] }

\* ---------------------------------------------------------- calendar
\* the provider's dates: a day of the NFL season, or no date at all
NoDate == [year |-> 0, month |-> 0, day |-> 0]
GameDate == [year |-> 2024, month |-> 9, day |-> 10]
PlayoffDate == [year |-> 2025, month |-> 1, day |-> 12]
DateInputs == {NoDate, GameDate, PlayoffDate}

\* (a - b).days for two dates of the same year
DaysBetween(a, b) ==
    LET leap == a.year % 4 = 0 /\ (a.year % 100 # 0 \/ a.year % 400 = 0)
        common == <<0, 31, 59, 90, 120, 151, 181, 212, 243, 273, 304, 334>>
        \* days of the year before the first of the month
        before(month) ==
            common[month] + (IF month > 2 /\ leap THEN 1 ELSE 0)
    IN  (before(a.month) + a.day) - (before(b.month) + b.day)

\* ESPNService._create_new_game: season_year
SeasonOf(date) == IF date.month >= 9 THEN date.year ELSE date.year - 1

\* ESPNService._create_new_game: the estimated week, clamped to 1..22
WeekOf(date) ==
    LET week ==
            IF date.month >= 9
            THEN (DaysBetween(date, [year |-> date.year, month |-> 9,
                                     day |-> 1]) \div 7) + 1
            ELSE 18 + (DaysBetween(date, [year |-> date.year, month |-> 1,
                                          day |-> 1]) \div 7) + 1
        capped == IF week < 22 THEN week ELSE 22
    IN  IF capped > 1 THEN capped ELSE 1

VARIABLES
    users,   \* users[u]: balance and statistics of user u
    games,   \* games[g]: status, result and betting counters of game g
    bets,    \* sequence of Bet rows; the id of a bet is its index
    txns,    \* sequence of Transaction rows
    now,     \* datetime.now(timezone.utc)
    reqs,    \* reqs[w]: the request worker w is in the middle of
    sched,   \* the SchedulerService: its scheduler, its jobs and their runs
    catalog, \* the Game rows as the synchronizer keeps them, by external id
    fetch    \* the last ESPNService._make_request call and how it ended

vars == <<users, games, bets, txns, now, reqs, sched, catalog, fetch>>

\* ------------------------------------------------------------ data model
NewUser ==
    [ balance |-> InitialBalance, starting_balance |-> InitialBalance,
      total_winnings |-> 0, total_losses |-> 0,
      total_bets |-> 0, winning_bets |-> 0, losing_bets |-> 0,
      biggest_win |-> 0, biggest_loss |-> 0 ]

NewGame ==
    [ status |-> "scheduled", game_time |-> GameTime,
      home_team |-> HomeTeam, away_team |-> AwayTeam,
      week |-> WeekOf(GameDate), season |-> SeasonOf(GameDate),
      home_score |-> 0, away_score |-> 0,
      winner |-> NoTeam, is_tie |-> FALSE,
      total_bets |-> 0, total_wagered |-> 0,
      home_bets |-> 0, away_bets |-> 0,
      home_wagered |-> 0, away_wagered |-> 0 ]

NewBet(u, g, team, w, payout) ==
    [ user_id |-> u, game_id |-> g, team_picked |-> team,
      wager_amount |-> w, potential_payout |-> payout, actual_payout |-> 0,
      status |-> "pending", settled_at |-> NoTime ]

NewTransaction(u, type, amount, before, after, bid) ==
    [ user_id |-> u, type |-> type, amount |-> amount,
      balance_before |-> before, balance_after |-> after, bet_id |-> bid ]

\* the ledger store as one value
Store == [users |-> users, games |-> games, bets |-> bets, txns |-> txns]

BetIds(db) == 1..Len(db.bets)
\* the bet ids the requests carry (an id above Len(bets) names no bet)
BetIdInputs == 1..MaxBets

TerminalStatuses == {"won", "lost", "push", "cancelled"}

\* xs with the element at index i replaced by v
Put(xs, i, v) == [xs EXCEPT ![i] = v]

\* ------------------------------------------------------------ validation
\* bet_validator.BetValidator.validate_bet_amount
ValidatorAmountOk(amount, user) ==
    /\ ~(amount <= 0)
    /\ ~(amount > user.balance)

\* models.Game.is_bettable
\* a cutoff that still admits bets at the cutoff instant
IsBettableInclusive(game, t) ==
    game.status = "scheduled" /\ t <= game.game_time - CutoffMinutes
IsBettable(game, t) ==
    game.status = "scheduled" /\ t < game.game_time - CutoffMinutes

\* bet_validator.BetValidator.validate_team_selection
TeamSelectionOk(team) == team \in {HomeTeam, AwayTeam}

\* validate_duplicate_bet (both services): no pending bet of u on g
\* a duplicate check that any earlier bet of u on g fails, whatever its status
NoBetOfAnyStatus(db, u, g) ==
    ~ \E i \in BetIds(db) :
        /\ db.bets[i].user_id = u
        /\ db.bets[i].game_id = g
NoPendingBet(db, u, g) ==
    ~ \E i \in BetIds(db) :
        /\ db.bets[i].user_id = u
        /\ db.bets[i].game_id = g
        /\ db.bets[i].status = "pending"

\* bet_validator.BetValidator.validate_bet
ValidateBet(db, u, g, team, w, t) ==
    /\ ValidatorAmountOk(w, db.users[u])
    /\ IsBettable(db.games[g], t)
    /\ TeamSelectionOk(team)
    /\ NoPendingBet(db, u, g)

\* bet_service.BetValidator.validate_bet_amount
\* an amount check that does not look at the balance
ServiceAmountOkUnfunded(amount, user) ==
    /\ ~(amount <= 0)
    /\ ~(amount < MinBetAmount)
ServiceAmountOk(amount, user) ==
    /\ ~(amount <= 0)
    /\ ~(amount < MinBetAmount)
    /\ ~(amount > user.balance)

\* bet_service.BetValidator.validate_game_timing
ServiceTimingOk(game, t) ==
    /\ ~(game.game_time <= t)
    /\ ~(t >= game.game_time - CutoffMinutes)
    /\ game.status \in {"scheduled", "pre"}

\* bet_service.BetValidator.validate_bet_comprehensive
ValidateBetComprehensive(db, u, g, team, w, t) ==
    /\ ServiceAmountOk(w, db.users[u])
    /\ ServiceTimingOk(db.games[g], t)
    /\ TeamSelectionOk(team)
    /\ NoPendingBet(db, u, g)

\* ------------------------------------------------------------- placement
\* the game counters after a placement on team with wager w
\* (bet_validator.create_bet, "Update game statistics")
GameAfterPlacement(game, team, w) ==
    IF team = HomeTeam
    THEN [game EXCEPT !.total_bets = @ + 1, !.total_wagered = @ + w,
                      !.home_bets = @ + 1, !.home_wagered = @ + w]
    ELSE [game EXCEPT !.total_bets = @ + 1, !.total_wagered = @ + w,
                      !.away_bets = @ + 1, !.away_wagered = @ + w]

\* what bet_validator.create_bet has in the session when it reaches its
\* first commit: the bet, the debited user, the game counters, the
\* bet_placed transaction with bet_id still None
ValidatorPlacement(db, u, g, team, w) ==
    LET user == [db.users[u] EXCEPT !.balance = @ - w, !.total_bets = @ + 1]
        bet == NewBet(u, g, team, w, w * ValidatorMultiplier)
        txn == NewTransaction(u, "bet_placed", 0 - w, user.balance + w,
                              user.balance, NoBet)
    IN [ users |-> [db.users EXCEPT ![u] = user],
         games |-> [db.games EXCEPT ![g] = GameAfterPlacement(@, team, w)],
         bets |-> Append(db.bets, bet),
         txns |-> Append(db.txns, txn) ]

\* the second commit of bet_validator.create_bet: transaction.bet_id = bet.id
LinkTransaction(db) ==
    [db EXCEPT !.txns = Put(@, Len(@), [@[Len(@)] EXCEPT !.bet_id = Len(db.bets)])]

\* bet_validator.BetValidator.create_bet; fail names the commit that raises
\* SQLAlchemyError ("none", "first" or "second").  Returns the store and
\* whether a bet was returned (FALSE: BetValidationError was raised).
ValidatorCreateBet(db, u, g, team, w, fail) ==
    IF fail = "first"
    THEN [db |-> db, ok |-> FALSE]
    ELSE IF fail = "second"
    THEN [db |-> ValidatorPlacement(db, u, g, team, w), ok |-> FALSE]
    ELSE [db |-> LinkTransaction(ValidatorPlacement(db, u, g, team, w)),
          ok |-> TRUE]

\* bet_service.BetValidator.create_bet after its validation passed;
\* fail: the commit raises
\* a placement that promises the wager back and nothing more
ServicePlacementEvenMoney(db, u, g, team, w) ==
    LET user == [db.users[u] EXCEPT !.balance = @ - w]
        bet == NewBet(u, g, team, w, w)
    IN [db EXCEPT !.users = [@ EXCEPT ![u] = user],
                  !.bets = Append(@, bet)]
ServicePlacement(db, u, g, team, w) ==
    LET user == [db.users[u] EXCEPT !.balance = @ - w]
        bet == NewBet(u, g, team, w, w * PayoutMultiplier)
    IN [db EXCEPT !.users = [@ EXCEPT ![u] = user],
                  !.bets = Append(@, bet)]

\* a create_bet that debits the wager before it looks at the validation
ServiceCreateBetChargesFirst(db, u, g, team, w, t, fail) ==
    LET charged == [db EXCEPT !.users = [@ EXCEPT ![u] =
                       [db.users[u] EXCEPT !.balance = @ - w]]]
    IN IF ~ValidateBetComprehensive(db, u, g, team, w, t)
       THEN [db |-> charged, ok |-> FALSE]
       ELSE IF fail
       THEN [db |-> db, ok |-> FALSE]
       ELSE [db |-> ServicePlacement(db, u, g, team, w), ok |-> TRUE]
ServiceCreateBet(db, u, g, team, w, t, fail) ==
    IF ~ValidateBetComprehensive(db, u, g, team, w, t)
    THEN [db |-> db, ok |-> FALSE]
    ELSE IF fail
    THEN [db |-> db, ok |-> FALSE]
    ELSE [db |-> ServicePlacement(db, u, g, team, w), ok |-> TRUE]

\* bet_validator.BetValidator.validate_and_create_bet
ValidateAndCreateBet(db, u, g, team, w, t, fail) ==
    IF ~ValidateBet(db, u, g, team, w, t)
    THEN [db |-> db, ok |-> FALSE]
    ELSE ValidatorCreateBet(db, u, g, team, w, fail)

\* ---------------------------------------------------------- cancellation
\* the game counters after the reversal of a placement
\* (bet_validator.cancel_bet and the admin route, "Update game statistics")
GameAfterCancel(game, bet) ==
    IF bet.team_picked = HomeTeam
    THEN [game EXCEPT !.total_bets = @ - 1,
                      !.total_wagered = @ - bet.wager_amount,
                      !.home_bets = @ - 1,
                      !.home_wagered = @ - bet.wager_amount]
    ELSE [game EXCEPT !.total_bets = @ - 1,
                      !.total_wagered = @ - bet.wager_amount,
                      !.away_bets = @ - 1,
                      !.away_wagered = @ - bet.wager_amount]

CancelledBet(bet) ==
    [bet EXCEPT !.status = "cancelled", !.settled_at = SomeTime]

\* "Check if bet is still cancellable", in bet_validator.cancel_bet,
\* bet_service.cancel_bet and the admin route: TRUE when the bet is refused
\* a self-service cancellation that refuses only bets already cancelled
ValidatorNotCancellableLoose(bet) == bet.status = "cancelled"
ValidatorNotCancellable(bet) == bet.status # "pending"
ServiceNotCancellable(bet) == bet.status # "pending"
\* an admin cancellation that refuses only bets already cancelled
AdminNotCancellableLoose(bet) == bet.status = "cancelled"
AdminNotCancellable(bet) == bet.status # "pending"

\* the timing check of bet_validator.cancel_bet: TRUE when it raises
ValidatorCancelBlocked(game, t) ==
    IF t >= game.game_time
    THEN ~((t - game.game_time) \div MinutesPerDay > StaleDays)
    ELSE t >= game.game_time - CutoffMinutes

\* bet_validator.BetValidator.cancel_bet; u is the requesting user, whose
\* balance is refunded
ValidatorCancelBet(db, u, bid, t, fail) ==
    IF ~(bid \in BetIds(db) /\ db.bets[bid].user_id = u)
    THEN [db |-> db, ok |-> FALSE]
    ELSE LET bet == db.bets[bid] IN
    IF ValidatorNotCancellable(bet)
    THEN [db |-> db, ok |-> FALSE]
    ELSE IF ValidatorCancelBlocked(db.games[bet.game_id], t)
    THEN [db |-> db, ok |-> FALSE]
    ELSE IF fail
    THEN [db |-> db, ok |-> FALSE]
    ELSE [ db |-> [db EXCEPT
                    !.bets = Put(@, bid, CancelledBet(bet)),
                    !.users = [@ EXCEPT ![u].balance = @ + bet.wager_amount],
                    !.games = [@ EXCEPT ![bet.game_id] = GameAfterCancel(@, bet)]],
           ok |-> TRUE ]

\* the timing check of bet_service.cancel_bet: "raise" when comparing the
\* aware now with a naive cutoff raises TypeError, else whether it blocks
ServiceCancelTiming(game, t) ==
    IF GameTimeIsNaive THEN "raise"
    ELSE IF t >= game.game_time - CutoffMinutes THEN "blocked"
    ELSE "open"

\* bet_service.BetValidator.cancel_bet
ServiceCancelBet(db, u, bid, t, fail) ==
    IF ~(bid \in BetIds(db) /\ db.bets[bid].user_id = u)
    THEN [db |-> db, ok |-> FALSE]
    ELSE LET bet == db.bets[bid] IN
    IF ServiceNotCancellable(bet)
    THEN [db |-> db, ok |-> FALSE]
    ELSE IF ServiceCancelTiming(db.games[bet.game_id], t) # "open"
    THEN [db |-> db, ok |-> FALSE]
    ELSE IF fail
    THEN [db |-> db, ok |-> FALSE]
    ELSE [ db |-> [db EXCEPT
                    !.bets = Put(@, bid, CancelledBet(bet)),
                    !.users = [@ EXCEPT ![u].balance = @ + bet.wager_amount]],
           ok |-> TRUE ]

\* routes/admin.cancel_bet
\* an admin cancellation that is bound to games not yet under way
AdminCancelBetScheduledOnly(db, bid, fail) ==
    IF bid \notin BetIds(db)
    THEN [db |-> db, ok |-> FALSE]
    ELSE LET bet == db.bets[bid] IN
    IF bet.status # "pending" \/ db.games[bet.game_id].status # "scheduled"
    THEN [db |-> db, ok |-> FALSE]
    ELSE IF fail
    THEN [db |-> db, ok |-> FALSE]
    ELSE [ db |-> [db EXCEPT
                    !.bets = Put(@, bid, CancelledBet(bet)),
                    !.users = [@ EXCEPT ![bet.user_id].balance =
                                            @ + bet.wager_amount],
                    !.games = [@ EXCEPT ![bet.game_id] = GameAfterCancel(@, bet)]],
           ok |-> TRUE ]
AdminCancelBet(db, bid, fail) ==
    IF bid \notin BetIds(db)
    THEN [db |-> db, ok |-> FALSE]
    ELSE LET bet == db.bets[bid] IN
    IF AdminNotCancellable(bet)
    THEN [db |-> db, ok |-> FALSE]
    ELSE IF fail
    THEN [db |-> db, ok |-> FALSE]
    ELSE [ db |-> [db EXCEPT
                    !.bets = Put(@, bid, CancelledBet(bet)),
                    !.users = [@ EXCEPT ![bet.user_id].balance =
                                            @ + bet.wager_amount],
                    !.games = [@ EXCEPT ![bet.game_id] = GameAfterCancel(@, bet)]],
           ok |-> TRUE ]

\* ------------------------------------------------------------ settlement
\* SettlementService._determine_bet_outcome
\* an outcome rule for which a game without a winner is a loss
DetermineBetOutcomeNoPush(bet, game) ==
    IF bet.team_picked = game.winner THEN "won" ELSE "lost"
DetermineBetOutcome(bet, game) ==
    IF game.is_tie \/ game.winner = NoTeam THEN "push"
    ELSE IF bet.team_picked = game.winner THEN "won"
    ELSE "lost"

\* SettlementService._calculate_payout
CalculatePayout(bet, outcome) ==
    IF outcome = "won" THEN bet.potential_payout
    ELSE IF outcome = "push" THEN bet.wager_amount
    ELSE 0

\* SettlementService._update_user_after_settlement
\* a user update that credits the net gain instead of the payout
UpdateUserNetGain(user, bet, outcome, payout) ==
    IF outcome = "won"
    THEN [user EXCEPT !.balance = @ + payout - bet.wager_amount,
                      !.winning_bets = @ + 1,
                      !.total_winnings = @ + payout,
                      !.biggest_win = IF payout > @ THEN payout ELSE @]
    ELSE IF outcome = "lost"
    THEN [user EXCEPT !.losing_bets = @ + 1,
                      !.total_losses = @ + bet.wager_amount,
                      !.biggest_loss = IF bet.wager_amount > @
                                       THEN bet.wager_amount ELSE @]
    ELSE user
UpdateUserAfterSettlement(user, bet, outcome, payout) ==
    LET paid == [user EXCEPT !.balance = @ + payout] IN
    IF outcome = "won"
    THEN [paid EXCEPT !.winning_bets = @ + 1,
                      !.total_winnings = @ + payout,
                      !.biggest_win = IF payout > @ THEN payout ELSE @]
    ELSE IF outcome = "lost"
    THEN [paid EXCEPT !.losing_bets = @ + 1,
                      !.total_losses = @ + bet.wager_amount,
                      !.biggest_loss = IF bet.wager_amount > @
                                       THEN bet.wager_amount ELSE @]
    ELSE paid

\* models.Bet.settle(winner): the bet as the model method finalizes it
BetSettle(bet, winner) ==
    IF winner = NoTeam
    THEN [bet EXCEPT !.status = "push", !.actual_payout = bet.wager_amount,
                     !.settled_at = SomeTime]
    ELSE IF bet.team_picked = winner
    THEN [bet EXCEPT !.status = "won",
                     !.actual_payout = bet.potential_payout,
                     !.settled_at = SomeTime]
    ELSE [bet EXCEPT !.status = "lost", !.actual_payout = 0,
                     !.settled_at = SomeTime]

\* SettlementService.__init__, _transaction_types
TransactionType(outcome) ==
    CASE outcome = "won" -> "bet_won"
      [] outcome = "lost" -> "bet_lost"
      [] outcome = "push" -> "bet_push"

\* SettlementService._create_settlement_transaction; user is the user
\* after _update_user_after_settlement
SettlementTransaction(uid, user, bid, outcome, payout) ==
    NewTransaction(uid, TransactionType(outcome), payout,
                   user.balance - payout, user.balance, bid)

\* the bet as settle_bet finalizes it
SettledBet(bet, outcome, payout) ==
    [bet EXCEPT !.status = outcome, !.actual_payout = payout,
                !.settled_at = SomeTime]

\* settle_bet, "Check if bet is already settled" and "Check if game is final"
\* a settle_bet that skips the status check
AlreadySettledUnchecked(bet) == FALSE
AlreadySettled(bet) == bet.status # "pending"
\* a settle_bet that waits only for games still scheduled
GameNotFinalLoose(game) == game.status = "scheduled"
GameNotFinal(game) == game.status # "final"

\* a settle_bet that also takes the bet off its game's counters
SettleBetOffCounters(db, bid, fail) ==
    IF bid \notin BetIds(db)
    THEN [db |-> db, ok |-> FALSE]
    ELSE LET bet == db.bets[bid]
             game == db.games[bet.game_id] IN
    IF AlreadySettled(bet) \/ GameNotFinal(game) \/ fail
    THEN [db |-> db, ok |-> FALSE]
    ELSE LET outcome == DetermineBetOutcome(bet, game)
             payout == CalculatePayout(bet, outcome)
             user == UpdateUserAfterSettlement(db.users[bet.user_id], bet,
                                               outcome, payout) IN
         [ db |-> [db EXCEPT
                    !.bets = Put(@, bid, SettledBet(bet, outcome, payout)),
                    !.users = [@ EXCEPT ![bet.user_id] = user],
                    !.games = [@ EXCEPT ![bet.game_id] =
                                            GameAfterCancel(@, bet)],
                    !.txns = Append(@, SettlementTransaction(bet.user_id, user,
                                                bid, outcome, payout))],
           ok |-> TRUE ]

\* SettlementService.settle_bet; fail: the commit raises SQLAlchemyError
SettleBet(db, bid, fail) ==
    IF bid \notin BetIds(db)
    THEN [db |-> db, ok |-> FALSE]
    ELSE LET bet == db.bets[bid]
             game == db.games[bet.game_id] IN
    IF AlreadySettled(bet)
    THEN [db |-> db, ok |-> FALSE]
    ELSE IF GameNotFinal(game)
    THEN [db |-> db, ok |-> FALSE]
    ELSE LET outcome == DetermineBetOutcome(bet, game)
             payout == CalculatePayout(bet, outcome)
             user == UpdateUserAfterSettlement(db.users[bet.user_id], bet,
                                               outcome, payout) IN
    IF fail
    THEN [db |-> db, ok |-> FALSE]
    ELSE [ db |-> [db EXCEPT
                    !.bets = Put(@, bid, SettledBet(bet, outcome, payout)),
                    !.users = [@ EXCEPT ![bet.user_id] = user],
                    !.txns = Append(@, SettlementTransaction(bet.user_id, user,
                                                bid, outcome, payout))],
           ok |-> TRUE ]

\* the elements of a set of numbers in increasing order
RECURSIVE Ascending(_)
Ascending(S) ==
    IF S = {} THEN <<>>
    ELSE LET m == CHOOSE x \in S : \A y \in S : x <= y
         IN <<m>> \o Ascending(S \ {m})

\* settle_completed_games: the final games with a pending bet
CompletedGames(db) ==
    Ascending({ g \in Games :
        /\ db.games[g].status = "final"
        /\ \E i \in BetIds(db) :
              db.bets[i].game_id = g /\ db.bets[i].status = "pending" })

\* settle_completed_games: the pending bets of game g
PendingBets(db, g) ==
    Ascending({ i \in BetIds(db) :
        db.bets[i].game_id = g /\ db.bets[i].status = "pending" })

\* settle_bet inside a session that lives on after the call (the session
\* of a settlement pass).  sess.db is the committed store, sess.work what
\* the session sees: db plus the changes it has neither committed nor
\* rolled back.  fail is what the commit does: "none" it succeeds, "db" it
\* raises SQLAlchemyError (the inner handler rolls back), "other" it raises
\* another exception (only the outer handler runs: no rollback).
SettleBetIn(sess, bid, fail) ==
    LET r == SettleBet(sess.work, bid, FALSE) IN
    IF ~r.ok THEN [db |-> sess.db, work |-> sess.work, ok |-> FALSE]
    ELSE IF fail = "db" THEN [db |-> sess.db, work |-> sess.db, ok |-> FALSE]
    ELSE IF fail = "other" THEN [db |-> sess.db, work |-> r.db, ok |-> FALSE]
    ELSE [db |-> r.db, work |-> r.db, ok |-> TRUE]

\* what the commit of bet bid does, given the bets whose commit raises
\* SQLAlchemyError (failing) and those whose commit raises otherwise (raising)
CommitFailure(bid, failing, raising) ==
    IF bid \in failing THEN "db"
    ELSE IF bid \in raising THEN "other"
    ELSE "none"

\* the inner loop of settle_completed_games over the bets ids.
\* acc: committed store, session view, count, error ids
RECURSIVE SettleEach(_, _, _, _)
\* a loop that gives up at the first bet that fails
SettleEachAbort(acc, ids, failing, raising) ==
    IF ids = <<>> THEN acc
    ELSE LET r == SettleBetIn([db |-> acc.db, work |-> acc.work], Head(ids),
                              CommitFailure(Head(ids), failing, raising))
         IN IF r.ok
            THEN SettleEach([acc EXCEPT !.db = r.db, !.work = r.work,
                                        !.settled = @ + 1],
                            Tail(ids), failing, raising)
            ELSE [acc EXCEPT !.db = r.db, !.work = r.work,
                             !.errors = @ \cup {Head(ids)}]
SettleEach(acc, ids, failing, raising) ==
    IF ids = <<>> THEN acc
    ELSE LET r == SettleBetIn([db |-> acc.db, work |-> acc.work], Head(ids),
                              CommitFailure(Head(ids), failing, raising))
             next == IF r.ok
                     THEN [acc EXCEPT !.db = r.db, !.work = r.work,
                                      !.settled = @ + 1]
                     ELSE [acc EXCEPT !.db = r.db, !.work = r.work,
                                      !.errors = @ \cup {Head(ids)}]
         IN SettleEach(next, Tail(ids), failing, raising)

\* the outer loop of settle_completed_games over the games gs
RECURSIVE SettleGames(_, _, _, _)
SettleGames(acc, gs, failing, raising) ==
    IF gs = <<>> THEN acc
    ELSE SettleGames(SettleEach(acc, PendingBets(acc.work, Head(gs)),
                                failing, raising),
                     Tail(gs), failing, raising)

\* SettlementService.settle_completed_games; the result's db is what is
\* committed when the pass returns and its session is discarded
SettleCompletedGames(db, failing, raising) ==
    SettleGames([db |-> db, work |-> db, settled |-> 0, errors |-> {}],
                CompletedGames(db), failing, raising)

\* ---------------------------------------------------------- synchronizer
\* ESPNService._update_existing_game, status_mapping
StatusMapping(name) ==
    CASE name \in {"Final", "Final/OT"} -> "final"
      [] name = "In Progress" -> "in_progress"
      [] name = "Scheduled" -> "scheduled"
      [] name = "Postponed" -> "postponed"
      [] name = "Cancelled" -> "cancelled"
      [] OTHER -> "scheduled"

\* the statuses status_mapping can store in Game.status
GameStatuses ==
    {"scheduled", "in_progress", "final", "postponed", "cancelled"}

\* ESPNService._parse_single_game: game_completed and the derived winner
Completed(ev) == ev.status \in {"Final", "Final/OT"}

\* a parser that names the side ahead whatever the status
ParsedWinnerAnyStatus(ev) ==
    IF ev.home_score > ev.away_score THEN HomeTeam
    ELSE IF ev.away_score > ev.home_score THEN AwayTeam
    ELSE NoTeam

ParsedWinner(ev) ==
    IF Completed(ev) /\ ev.home_score > ev.away_score THEN HomeTeam
    ELSE IF Completed(ev) /\ ev.away_score > ev.home_score THEN AwayTeam
    ELSE NoTeam

\* an update that sets the winner only when the event names one
UpdateExistingGameKeepsWinner(game, ev) ==
    [game EXCEPT !.home_score = ev.home_score,
                 !.away_score = ev.away_score,
                 !.status = StatusMapping(ev.status),
                 !.winner = IF ParsedWinner(ev) # NoTeam
                            THEN ParsedWinner(ev) ELSE @,
                 !.is_tie = (ev.home_score = ev.away_score /\ Completed(ev))]

\* an update that writes the event over a fresh row
UpdateExistingGameAsNew(game, ev) ==
    [NewGame EXCEPT !.home_score = ev.home_score,
                    !.away_score = ev.away_score,
                    !.status = StatusMapping(ev.status),
                    !.winner = ParsedWinner(ev),
                    !.is_tie = (ev.home_score = ev.away_score /\ Completed(ev))]

\* ESPNService._update_existing_game
UpdateExistingGame(game, ev) ==
    [game EXCEPT !.home_score = ev.home_score,
                 !.away_score = ev.away_score,
                 !.status = StatusMapping(ev.status),
                 !.winner = ParsedWinner(ev),
                 !.is_tie = (ev.home_score = ev.away_score /\ Completed(ev))]

\* the Game table as update_games_in_database sees it: a sequence of rows
\* in the order of their creation, each with its external event id
ExternalIds == {"e1", "e2"}
MaxBatch == 2

\* what _parse_single_game can hand over for one event: any status name
\* (one of them unknown to status_mapping), the scores, and the parsed
\* date, which is None for an event without a date
StatusNames == {"Scheduled", "Final", "Final/OT", "Halftime"}
ParsedEvents ==
    { [espn_game_id |-> e, status |-> "Scheduled",
       home_score |-> 0, away_score |-> 0, game_date |-> d] :
          e \in ExternalIds, d \in DateInputs }
    \cup { [espn_game_id |-> e, status |-> "Final",
            home_score |-> 1, away_score |-> 0, game_date |-> d] :
               e \in ExternalIds, d \in DateInputs }
    \cup { [espn_game_id |-> e, status |-> "Final/OT",
            home_score |-> 1, away_score |-> 1, game_date |-> d] :
               e \in ExternalIds, d \in DateInputs }
    \cup { [espn_game_id |-> e, status |-> "Halftime",
            home_score |-> 0, away_score |-> 1, game_date |-> d] :
               e \in ExternalIds, d \in DateInputs }

\* the lists parse_game_data can produce
Batches ==
    UNION { [1..n -> ParsedEvents] : n \in 1..MaxBatch }

\* ESPNService._create_new_game: the columns of the new row; the betting
\* counters take their column defaults
CreateNewGame(ev, t) ==
    [espn_game_id |-> ev.espn_game_id, updated_at |-> t]
    @@ [NewGame EXCEPT !.game_time = ev.game_date,
                       !.week = WeekOf(ev.game_date),
                       !.season = SeasonOf(ev.game_date),
                       !.home_score = ev.home_score,
                       !.away_score = ev.away_score,
                       !.status = StatusMapping(ev.status),
                       !.winner = ParsedWinner(ev),
                       !.is_tie = (ev.home_score = ev.away_score
                                      /\ Completed(ev))]

\* ESPNService._update_existing_game on a row of the table, which also
\* stamps updated_at with the time of the call
UpdateExistingRow(row, ev, t) ==
    [UpdateExistingGame(row, ev) EXCEPT !.updated_at = t]

\* Game.query.filter_by(espn_game_id=...): the positions of the rows found
RowsOf(rows, e) == { i \in 1..Len(rows) : rows[i].espn_game_id = e }

FirstOf(S) == CHOOSE i \in S : \A j \in S : i <= j

\* the loop of update_games_in_database over the session's view; creating
\* a row for an event without a date raises (game_date.year of None)
RECURSIVE UpdateEach(_, _, _)
UpdateEach(acc, batch, t) ==
    IF batch = <<>> \/ acc.raised THEN acc
    ELSE LET ev == Head(batch)
             found == RowsOf(acc.games, ev.espn_game_id)
         IN  IF found # {}
             THEN UpdateEach(
                      [acc EXCEPT !.games[FirstOf(found)] =
                                      UpdateExistingRow(@, ev, t),
                                  !.updated = @ + 1],
                      Tail(batch), t)
             ELSE IF ev.game_date = NoDate
             THEN [acc EXCEPT !.raised = TRUE]
             ELSE UpdateEach(
                      [acc EXCEPT !.games = Append(@, CreateNewGame(ev, t)),
                                  !.created = @ + 1],
                      Tail(batch), t)

\* ESPNService.update_games_in_database: one commit after the loop, or a
\* rollback of the whole batch and ESPNAPIError
UpdateGamesInDatabase(rows, batch, t) ==
    LET r == UpdateEach([games |-> rows, created |-> 0, updated |-> 0,
                         raised |-> FALSE], batch, t)
    IN  IF r.raised
        THEN [games |-> rows, created |-> 0, updated |-> 0, raised |-> TRUE]
        ELSE r

\* ESPNService._make_request.  The server's answers to the attempts, in
\* order: a body ("ok"), a transport error, an HTTP error status, a 429
\* whose Retry-After is absent or a number of seconds, and a 429 whose
\* Retry-After is an HTTP date.
MaxRetries == 3
ResponseInputs ==
    [1..MaxRetries -> {"ok", "transport", "http_error", "429", "429_date"}]

NoFetch == [responses |-> <<>>, attempts |-> 0, result |-> "none", body |-> 0]

\* the loop over range(max_retries) from attempt n on; the body of the
\* n-th response is called n
RECURSIVE Attempt(_, _)
Attempt(responses, n) ==
    IF n > MaxRetries
    THEN [responses |-> responses, attempts |-> MaxRetries,
          result |-> "ESPNAPIError", body |-> 0]
    ELSE CASE responses[n] = "ok" ->
                [responses |-> responses, attempts |-> n,
                 result |-> "body", body |-> n]
           [] responses[n] = "429_date" ->
                \* int(response.headers['Retry-After']) raises ValueError,
                \* which is no RequestException
                [responses |-> responses, attempts |-> n,
                 result |-> "ValueError", body |-> 0]
           [] OTHER -> Attempt(responses, n + 1)

MakeRequest(responses) == Attempt(responses, 1)

\* ---------------------------------------------------------------- repair
\* scripts/fix_user_statistics.recalculate_user_balances: the balance the
\* loop computes for user u from the first n bets in the order placed
RECURSIVE CalculatedBalance(_, _, _)
CalculatedBalance(db, u, n) ==
    IF n = 0 THEN db.users[u].starting_balance
    ELSE LET before == CalculatedBalance(db, u, n - 1)
             bet == db.bets[n]
         IN  IF bet.user_id # u THEN before
             ELSE CASE bet.status = "cancelled" -> before
                    [] bet.status = "pending" -> before - bet.wager_amount
                    [] bet.status = "won" ->
                           before - bet.wager_amount + bet.actual_payout
                    [] bet.status = "lost" -> before
                    [] bet.status = "push" -> before
                    [] OTHER -> before

\* recalculate_user_balances: a balance that differs from the calculated
\* one (by more than a cent, which is less than the unit of money here) is
\* overwritten, and the changes are committed
RecalculateUserBalances(db) ==
    [db EXCEPT !.users =
        [u \in Users |->
            LET calculated == CalculatedBalance(db, u, Len(db.bets))
            IN  IF calculated # db.users[u].balance
                THEN [db.users[u] EXCEPT !.balance = calculated]
                ELSE db.users[u]]]

\* ------------------------------------------------- interleaved requests
\* A request handler runs in its own session: it reads the bet (and what
\* its checks need), later loads the related rows it modifies, and at
\* commit writes the columns it changed.  Nothing locks the rows between
\* these steps, so the steps of two requests interleave.
\* The settlement job and a web request that cancels.
Settler == "settler"
Canceller == "canceller"
\* two web requests that place a bet
Placers == {"placer_a", "placer_b"}
Workers == {Settler, Canceller} \cup Placers

IdleReq ==
    [ op |-> "none", pc |-> "idle", bet |-> NoBet, ok |-> FALSE,
      seen_bet |-> NewBet(0, 0, NoTeam, 0, 0),
      seen_game |-> NewGame, seen_user |-> NewUser ]

\* the request ended without writing
Refused(op, bid) == [IdleReq EXCEPT !.op = op, !.pc = "done", !.bet = bid]

\* the UPDATE a commit issues for a row: the columns the session changed
\* (after differs from before) are written, the others keep the stored value
WriteChanged(stored, before, after) ==
    [f \in DOMAIN stored |->
        IF after[f] # before[f] THEN after[f] ELSE stored[f]]

\* settle_bet up to its checks: the bet and its game are read
BeginSettle(w, bid) ==
    /\ reqs[w].pc = "idle"
    /\ reqs' = [reqs EXCEPT ![w] =
          IF bid \notin BetIds(Store) THEN Refused("settle_bet", bid)
          ELSE IF AlreadySettled(bets[bid]) THEN Refused("settle_bet", bid)
          ELSE IF GameNotFinal(games[bets[bid].game_id])
          THEN Refused("settle_bet", bid)
          ELSE [IdleReq EXCEPT !.op = "settle_bet", !.pc = "checked",
                               !.bet = bid, !.seen_bet = bets[bid],
                               !.seen_game = games[bets[bid].game_id]]]
    /\ UNCHANGED <<users, games, bets, txns, now>>

\* the admin cancellation up to its check: the bet is read
BeginAdminCancel(w, bid) ==
    /\ reqs[w].pc = "idle"
    /\ reqs' = [reqs EXCEPT ![w] =
          IF bid \notin BetIds(Store) THEN Refused("admin_cancel_bet", bid)
          ELSE IF AdminNotCancellable(bets[bid])
          THEN Refused("admin_cancel_bet", bid)
          ELSE [IdleReq EXCEPT !.op = "admin_cancel_bet", !.pc = "checked",
                               !.bet = bid, !.seen_bet = bets[bid]]]
    /\ UNCHANGED <<users, games, bets, txns, now>>

\* bet_validator.cancel_bet up to its checks: the caller has loaded the
\* user, the bet and its game are read
BeginValidatorCancel(w, u, bid) ==
    /\ reqs[w].pc = "idle"
    /\ reqs' = [reqs EXCEPT ![w] =
          IF ~(bid \in BetIds(Store) /\ bets[bid].user_id = u)
          THEN Refused("validator_cancel_bet", bid)
          ELSE IF ValidatorNotCancellable(bets[bid])
          THEN Refused("validator_cancel_bet", bid)
          ELSE IF ValidatorCancelBlocked(games[bets[bid].game_id], now)
          THEN Refused("validator_cancel_bet", bid)
          ELSE [IdleReq EXCEPT !.op = "validator_cancel_bet",
                               !.pc = "checked", !.bet = bid,
                               !.seen_bet = bets[bid],
                               !.seen_user = users[u],
                               !.seen_game = games[bets[bid].game_id]]]
    /\ UNCHANGED <<users, games, bets, txns, now>>

\* the lazy loads of bet.user (settle_bet, admin) and bet.game (admin);
\* bet_validator.cancel_bet has its rows already
LoadRows(w) ==
    /\ reqs[w].pc = "checked"
    /\ LET r == reqs[w]
           u == r.seen_bet.user_id
           g == r.seen_bet.game_id
       IN reqs' = [reqs EXCEPT ![w] =
             CASE r.op = "settle_bet" ->
                    [r EXCEPT !.pc = "loaded", !.seen_user = users[u]]
               [] r.op = "admin_cancel_bet" ->
                    [r EXCEPT !.pc = "loaded", !.seen_user = users[u],
                              !.seen_game = games[g]]
               [] OTHER -> [r EXCEPT !.pc = "loaded"]]
    /\ UNCHANGED <<users, games, bets, txns, now>>

\* the commit of settle_bet
CommitSettle(w) ==
    /\ reqs[w].pc = "loaded"
    /\ reqs[w].op = "settle_bet"
    /\ LET r == reqs[w]
           bid == r.bet
           u == r.seen_bet.user_id
           outcome == DetermineBetOutcome(r.seen_bet, r.seen_game)
           payout == CalculatePayout(r.seen_bet, outcome)
           user == UpdateUserAfterSettlement(r.seen_user, r.seen_bet,
                                             outcome, payout)
       IN /\ bets' = Put(bets, bid,
                 WriteChanged(bets[bid], r.seen_bet,
                              SettledBet(r.seen_bet, outcome, payout)))
          /\ users' = [users EXCEPT ![u] = WriteChanged(@, r.seen_user, user)]
          /\ txns' = Append(txns,
                 SettlementTransaction(u, user, bid, outcome, payout))
          /\ reqs' = [reqs EXCEPT ![w] = [r EXCEPT !.pc = "done", !.ok = TRUE]]
    /\ UNCHANGED <<games, now>>

\* the commit of a cancellation (admin or bet_validator.cancel_bet)
CommitCancel(w) ==
    /\ reqs[w].pc = "loaded"
    /\ reqs[w].op \in {"admin_cancel_bet", "validator_cancel_bet"}
    /\ LET r == reqs[w]
           bid == r.bet
           u == r.seen_bet.user_id
           g == r.seen_bet.game_id
           user == [r.seen_user EXCEPT !.balance = @ + r.seen_bet.wager_amount]
       IN /\ bets' = Put(bets, bid,
                 WriteChanged(bets[bid], r.seen_bet, CancelledBet(r.seen_bet)))
          /\ users' = [users EXCEPT ![u] = WriteChanged(@, r.seen_user, user)]
          /\ games' = [games EXCEPT ![g] =
                 WriteChanged(@, r.seen_game,
                              GameAfterCancel(r.seen_game, r.seen_bet))]
          /\ reqs' = [reqs EXCEPT ![w] = [r EXCEPT !.pc = "done", !.ok = TRUE]]
    /\ UNCHANGED <<txns, now>>

\* a placement request up to the end of its validation: the user, the
\* game and the user's pending bets are read; seen_bet is the Bet object
\* the request is about to add.  op is the entry point.
BeginPlace(w, op, u, g, team, wager) ==
    /\ reqs[w].pc = "idle"
    /\ op \in {"validate_and_create_bet", "service_create_bet"}
    /\ LET valid == IF op = "validate_and_create_bet"
                    THEN ValidateBet(Store, u, g, team, wager, now)
                    ELSE ValidateBetComprehensive(Store, u, g, team, wager, now)
           payout == IF op = "validate_and_create_bet"
                     THEN wager * ValidatorMultiplier
                     ELSE wager * PayoutMultiplier
       IN reqs' = [reqs EXCEPT ![w] =
             IF ~valid THEN Refused(op, NoBet)
             ELSE [IdleReq EXCEPT !.op = op, !.pc = "loaded",
                                  !.seen_bet = NewBet(u, g, team, wager, payout),
                                  !.seen_user = users[u],
                                  !.seen_game = games[g]]]
    /\ UNCHANGED <<users, games, bets, txns, now>>

\* the commit of a placement request
CommitPlace(w) ==
    /\ reqs[w].pc = "loaded"
    /\ reqs[w].op \in {"validate_and_create_bet", "service_create_bet"}
    /\ Len(bets) < MaxBets
    /\ LET r == reqs[w]
           u == r.seen_bet.user_id
           g == r.seen_bet.game_id
           wager == r.seen_bet.wager_amount
           bid == Len(bets) + 1
       IN /\ bets' = Append(bets, r.seen_bet)
          /\ IF r.op = "validate_and_create_bet"
             THEN LET user == [r.seen_user EXCEPT !.balance = @ - wager,
                                                  !.total_bets = @ + 1]
                  IN /\ users' = [users EXCEPT
                                    ![u] = WriteChanged(@, r.seen_user, user)]
                     /\ games' = [games EXCEPT ![g] =
                           WriteChanged(@, r.seen_game,
                               GameAfterPlacement(r.seen_game,
                                                  r.seen_bet.team_picked,
                                                  wager))]
                     /\ txns' = Append(txns,
                           NewTransaction(u, "bet_placed", 0 - wager,
                                          user.balance + wager, user.balance,
                                          bid))
             ELSE /\ users' = [users EXCEPT ![u] =
                        WriteChanged(@, r.seen_user,
                                     [r.seen_user EXCEPT !.balance = @ - wager])]
                  /\ UNCHANGED <<games, txns>>
          /\ reqs' = [reqs EXCEPT ![w] =
                        [r EXCEPT !.pc = "done", !.ok = TRUE, !.bet = bid]]
    /\ UNCHANGED now

\* -------------------------------------------------------------- scheduler
\* bounds: jobs added while the scheduler is stopped, fire times of one job
\* that pass before the scheduler wakes, the longest interval, and the
\* modulus of the run counter
MaxPending == 2
MaxDue == 2
MaxInterval == 2
RunsModulus == 2

\* job_defaults of _setup_scheduler
MaxInstances == 1
Coalesce == TRUE

\* the job ids a caller passes: two proper ids, the empty string, a blank
\* string and None (NoneId stands for the value None)
NoneId == "<None>"
JobIds == {"a", "b"}
BlankIds == {"", " "}
JobIdInputs == JobIds \cup BlankIds \cup {NoneId}
IntervalInputs == (0 - 1)..MaxInterval
WorkOutcomes == {"success", "failure", "raises"}

\* scheduler.add_job(func, 'interval', minutes, id): the Job it builds
NewJob(kind, job_id, minutes) ==
    [id |-> job_id, kind |-> kind, minutes |-> minutes]

\* SchedulerService after __init__: a stopped scheduler without jobs.
\* pending: jobs added while stopped; store: the jobs of the MemoryJobStore;
\* instances[i]: running instances of job i; todo[i]: calls of the job
\* function those instances still make; due[i]: fire times of job i that
\* have passed unprocessed; last_result[i]: how the last call ended;
\* runs: completed calls modulo RunsModulus
InitSched ==
    [ state |-> "stopped", pending |-> <<>>, store |-> <<>>,
      instances |-> [i \in JobIds |-> 0], todo |-> [i \in JobIds |-> 0],
      due |-> [i \in JobIds |-> 0],
      last_result |-> [i \in JobIds |-> "none"], runs |-> 0 ]

\* str.strip on the job ids above
Strip(job_id) == IF job_id = " " THEN "" ELSE job_id

\* "not job_id or job_id.strip() == ''"
\* a check that lets blank ids through
InvalidJobIdEmptyOnly(job_id) == job_id = NoneId \/ job_id = ""
InvalidJobId(job_id) ==
    \/ job_id = NoneId \/ job_id = ""
    \/ Strip(job_id) = ""

\* "interval_minutes <= 0"
InvalidInterval(minutes) == minutes <= 0

\* the positions of the jobs with id job_id in a job list
Positions(jobs, job_id) == { i \in 1..Len(jobs) : jobs[i].id = job_id }

\* the job list without its element at position k
Without(jobs, k) ==
    [i \in 1..(Len(jobs) - 1) |-> IF i < k THEN jobs[i] ELSE jobs[i + 1]]

\* the scheduler's _real_add_job with replace_existing=True on the memory
\* store: a job with the same id is replaced, another one is added
RealAddJob(store, job) ==
    IF Positions(store, job.id) # {}
    THEN [i \in 1..Len(store) |->
             IF store[i].id = job.id THEN job ELSE store[i]]
    ELSE Append(store, job)

\* scheduler.add_job: while the scheduler is stopped the job is only put
\* on the list of pending jobs; a started scheduler stores it at once
\* (its first fire time is one interval ahead)
SchedulerAddJob(s, job) ==
    IF s.state = "stopped"
    THEN [s EXCEPT !.pending = Append(@, job)]
    ELSE [s EXCEPT !.store = RealAddJob(@, job), !.due[job.id] = 0]

\* the common body of add_espn_update_job and add_settlement_job
AddJobChecked(s, kind, job_id, minutes) ==
    IF InvalidJobId(job_id) THEN [sched |-> s, raised |-> TRUE]
    ELSE IF InvalidInterval(minutes) THEN [sched |-> s, raised |-> TRUE]
    ELSE [sched |-> SchedulerAddJob(s, NewJob(kind, job_id, minutes)),
          raised |-> FALSE]

\* SchedulerService.add_espn_update_job; raised: ValueError
AddEspnUpdateJob(s, job_id, minutes) ==
    AddJobChecked(s, "espn_update", job_id, minutes)

\* SchedulerService.add_settlement_job; raised: ValueError
AddSettlementJob(s, job_id, minutes) ==
    AddJobChecked(s, "settlement", job_id, minutes)

\* SchedulerService.get_jobs: scheduler.get_jobs(), the pending jobs of a
\* stopped scheduler, the stored jobs of a started one
GetJobs(s) == IF s.state = "stopped" THEN s.pending ELSE s.store

\* SchedulerService.remove_job: scheduler.remove_job deletes the first
\* pending job with the id (stopped) or the stored job (started) and
\* raises JobLookupError when there is none; result: the value returned
RemoveJob(s, job_id) ==
    LET found == Positions(GetJobs(s), job_id) IN
    IF found = {} THEN [sched |-> s, result |-> FALSE]
    ELSE LET k == CHOOSE i \in found : \A j \in found : i <= j IN
         IF s.state = "stopped"
         THEN [sched |-> [s EXCEPT !.pending = Without(@, k)],
               result |-> TRUE]
         ELSE [sched |-> [s EXCEPT !.store = Without(@, k),
                                   !.due[job_id] = 0],
               result |-> TRUE]

\* scheduler.start: the pending jobs are really added, in order
RECURSIVE FlushPending(_, _)
FlushPending(store, pending) ==
    IF pending = <<>> THEN store
    ELSE FlushPending(RealAddJob(store, Head(pending)), Tail(pending))

\* SchedulerService.start
Start(s) ==
    IF s.state = "running" THEN s
    ELSE [s EXCEPT !.state = "running",
                   !.store = FlushPending(@, s.pending),
                   !.pending = <<>>]

\* the run times the scheduler hands to the executor for a job with due
\* passed fire times: with coalesce only the last one
RunTimes(due) == IF Coalesce /\ due > 0 THEN 1 ELSE due

\* the executor's submit_job: refused (MaxInstancesReachedError, the run
\* is skipped) when the job already has max_instances running instances
\* an executor that never refuses
CanSubmitAlways(instances) == TRUE
CanSubmit(instances) == instances < MaxInstances

\* the scheduler's _process_jobs: every stored job with a passed fire time
\* is submitted once, or skipped, and its next fire time lies ahead again
ProcessJobs(s) ==
    LET passed(i) == Positions(s.store, i) # {} /\ s.due[i] > 0
        go(i) == passed(i) /\ CanSubmit(s.instances[i])
    IN [s EXCEPT
          !.instances = [i \in JobIds |-> IF go(i) THEN @[i] + 1 ELSE @[i]],
          !.todo = [i \in JobIds |->
                      IF go(i) THEN @[i] + RunTimes(s.due[i]) ELSE @[i]],
          !.due = [i \in JobIds |-> 0]]

\* safe_espn_update and safe_settlement: how a call of the wrapper ends
\* when the work it calls ends as outcome: "success" and "failure" are the
\* work's own result returned, "caught" the failure result the handler
\* builds from an exception, "raises" an exception leaving the wrapper
\* a job function without the try/except
UnwrappedJob(outcome) == outcome
SafeJob(outcome) == IF outcome = "raises" THEN "caught" ELSE outcome

\* one call of the job function of job i returns; the executor ends the
\* instance when its run times are done (an exception of the function is
\* caught by the executor and reported to the error listener)
JobCallEnds(s, i, outcome) ==
    [s EXCEPT !.last_result[i] = SafeJob(outcome),
              !.todo[i] = @ - 1,
              !.instances[i] = IF s.todo[i] = 1 THEN 0 ELSE @,
              !.runs = (@ + 1) % RunsModulus]

\* ---------------------------------------------------------------- actions
Init ==
    /\ users = [u \in Users |-> NewUser]
    /\ games = [g \in Games |-> NewGame]
    /\ bets = <<>>
    /\ txns = <<>>
    /\ now = GameTime - CutoffMinutes - 1
    /\ reqs = [w \in Workers |-> IdleReq]
    /\ sched = InitSched
    /\ catalog = <<>>
    /\ fetch = NoFetch

\* the scheduler and the synchronizer, which the betting requests leave alone
services == <<sched, catalog, fetch>>

\* the store becomes db
Commit(db) ==
    /\ users' = db.users
    /\ games' = db.games
    /\ bets' = db.bets
    /\ txns' = db.txns
    /\ UNCHANGED reqs

\* time passes
Tick ==
    \E t \in TimePoints :
        /\ t > now
        /\ now' = t
        /\ UNCHANGED <<users, games, bets, txns, reqs>>

\* a sync batch updates game g from a provider event
SyncGame ==
    \E g \in Games, ev \in ProviderEvents :
        /\ games' = [games EXCEPT ![g] = UpdateExistingGame(@, ev)]
        /\ UNCHANGED <<users, bets, txns, now, reqs>>

\* bet_validator.create_bet called on its own
DoValidatorCreateBet ==
    \E u \in Users, g \in Games, team \in {HomeTeam, AwayTeam}, w \in Wagers,
       fail \in {"none", "first", "second"} :
        /\ Len(bets) < MaxBets
        /\ Commit(ValidatorCreateBet(Store, u, g, team, w, fail).db)
        /\ UNCHANGED now

DoValidateAndCreateBet ==
    \E u \in Users, g \in Games, team \in TeamInputs, w \in Wagers,
       fail \in {"none", "first", "second"} :
        /\ Len(bets) < MaxBets
        /\ Commit(ValidateAndCreateBet(Store, u, g, team, w, now, fail).db)
        /\ UNCHANGED now

\* routes/betting.place and place_bet: bet_service.create_bet
DoServiceCreateBet ==
    \E u \in Users, g \in Games, team \in TeamInputs, w \in Wagers,
       fail \in BOOLEAN :
        /\ Len(bets) < MaxBets
        /\ Commit(ServiceCreateBet(Store, u, g, team, w, now, fail).db)
        /\ UNCHANGED now

DoValidatorCancelBet ==
    \E u \in Users, bid \in BetIdInputs, fail \in BOOLEAN :
        /\ Commit(ValidatorCancelBet(Store, u, bid, now, fail).db)
        /\ UNCHANGED now

\* routes/betting.cancel_bet: bet_service.cancel_bet
DoServiceCancelBet ==
    \E u \in Users, bid \in BetIdInputs, fail \in BOOLEAN :
        /\ Commit(ServiceCancelBet(Store, u, bid, now, fail).db)
        /\ UNCHANGED now

DoAdminCancelBet ==
    \E bid \in BetIdInputs, fail \in BOOLEAN :
        /\ Commit(AdminCancelBet(Store, bid, fail).db)
        /\ UNCHANGED now

DoSettleBet ==
    \E bid \in BetIdInputs, fail \in BOOLEAN :
        /\ Commit(SettleBet(Store, bid, fail).db)
        /\ UNCHANGED now

\* the settlement job and the manual trigger
DoSettleCompletedGames ==
    \E failing \in SUBSET BetIdInputs, raising \in SUBSET BetIdInputs :
        /\ Commit(SettleCompletedGames(Store, failing, raising).db)
        /\ UNCHANGED now

Next ==
    \/ Tick /\ UNCHANGED services
    \/ SyncGame /\ UNCHANGED services
    \/ DoValidatorCreateBet /\ UNCHANGED services
    \/ DoValidateAndCreateBet /\ UNCHANGED services
    \/ DoServiceCreateBet /\ UNCHANGED services
    \/ DoValidatorCancelBet /\ UNCHANGED services
    \/ DoServiceCancelBet /\ UNCHANGED services
    \/ DoAdminCancelBet /\ UNCHANGED services
    \/ DoSettleBet /\ UNCHANGED services
    \/ DoSettleCompletedGames /\ UNCHANGED services

Spec == Init /\ [][Next]_vars

\* placements and game updates as above, settlements and cancellations as
\* interleaved requests
RaceBegin ==
    \E bid \in BetIdInputs :
        \/ BeginSettle(Settler, bid)
        \/ BeginAdminCancel(Canceller, bid)
        \/ \E u \in Users : BeginValidatorCancel(Canceller, u, bid)

RaceLoad == \E w \in Workers : LoadRows(w)

RaceCommit == \E w \in Workers : CommitSettle(w) \/ CommitCancel(w)

\* no request is between its read and its commit
Quiet == \A w \in Workers : reqs[w].pc \in {"idle", "done"}

\* A request lasts milliseconds: the clock, the provider feed and the
\* placements move between requests, the two requests interleave freely.
NextRace ==
    \/ Quiet /\ Tick /\ UNCHANGED services
    \/ Quiet /\ SyncGame /\ UNCHANGED services
    \/ Quiet /\ DoValidateAndCreateBet /\ UNCHANGED services
    \/ RaceBegin /\ UNCHANGED services
    \/ RaceLoad /\ UNCHANGED services
    \/ RaceCommit /\ UNCHANGED services

SpecRace == Init /\ [][NextRace]_vars

\* game updates as above, placements as interleaved requests
PlaceBegin ==
    \E w \in Placers, u \in Users, g \in Games, team \in TeamInputs,
       wager \in Wagers,
       op \in {"validate_and_create_bet", "service_create_bet"} :
        BeginPlace(w, op, u, g, team, wager)

PlaceCommit == \E w \in Placers : CommitPlace(w)

NextPlace ==
    \/ Quiet /\ Tick /\ UNCHANGED services
    \/ Quiet /\ SyncGame /\ UNCHANGED services
    \/ PlaceBegin /\ UNCHANGED services
    \/ PlaceCommit /\ UNCHANGED services

SpecPlace == Init /\ [][NextPlace]_vars

\* Validated placements as interleaved requests; between requests the
\* clock and the provider feed move and bets are cancelled and settled.
NextBetting ==
    \/ Quiet /\ Tick /\ UNCHANGED services
    \/ Quiet /\ SyncGame /\ UNCHANGED services
    \/ PlaceBegin /\ UNCHANGED services
    \/ PlaceCommit /\ UNCHANGED services
    \/ Quiet /\ DoValidatorCancelBet /\ UNCHANGED services
    \/ Quiet /\ DoServiceCancelBet /\ UNCHANGED services
    \/ Quiet /\ DoAdminCancelBet /\ UNCHANGED services
    \/ Quiet /\ DoSettleBet /\ UNCHANGED services
    \/ Quiet /\ DoSettleCompletedGames /\ UNCHANGED services

SpecBetting == Init /\ [][NextBetting]_vars

\* the operator runs the repair script
DoRecalculateUserBalances ==
    /\ Commit(RecalculateUserBalances(Store))
    /\ UNCHANGED now

\* The services at work, one request after the other, and the repair
\* script run between them.
NextRepair ==
    \/ Tick /\ UNCHANGED services
    \/ SyncGame /\ UNCHANGED services
    \/ DoValidateAndCreateBet /\ UNCHANGED services
    \/ DoServiceCreateBet /\ UNCHANGED services
    \/ DoValidatorCancelBet /\ UNCHANGED services
    \/ DoAdminCancelBet /\ UNCHANGED services
    \/ DoSettleBet /\ UNCHANGED services
    \/ DoRecalculateUserBalances /\ UNCHANGED services

SpecRepair == Init /\ [][NextRepair]_vars

\* the settlement job as the scheduler runs it.  The scheduler is a plain
\* BackgroundScheduler: the job runs in a thread of its pool, and neither
\* safe_settlement nor settle_completed_games pushes an application context
JobHasAppContext == FALSE

\* safe_settlement of add_settlement_job: settle_completed_games, whose
\* first query needs the session of the application context; without one
\* it raises RuntimeError, which the handler of the pass turns into a
\* failure result before anything is read or written
SafeSettlement(db, failing, raising) ==
    IF JobHasAppContext
    THEN [db |-> SettleCompletedGames(db, failing, raising).db, ok |-> TRUE]
    ELSE [db |-> db, ok |-> FALSE]

\* one run of the settlement job with the given commit failures
SettlementJobPass(failing, raising) ==
    /\ Commit(SafeSettlement(Store, failing, raising).db)
    /\ sched' = [sched EXCEPT !.runs = (@ + 1) % RunsModulus]
    /\ UNCHANGED <<now, catalog, fetch>>

\* the interval trigger fires the settlement job
RunSettlementJob ==
    \E failing \in SUBSET BetIdInputs, raising \in SUBSET BetIdInputs :
        SettlementJobPass(failing, raising)

\* The deployed application: bets are placed through the betting route, the
\* provider feed and the clock move, and settlement is done by the job
\* alone (no route calls settle_bet or settle_completed_games).
NextJob ==
    \/ Tick /\ UNCHANGED services
    \/ SyncGame /\ UNCHANGED services
    \/ DoServiceCreateBet /\ UNCHANGED services
    \/ RunSettlementJob

\* the interval trigger keeps firing the job, and a run in which every
\* commit succeeds keeps being possible
JobFairness ==
    /\ WF_vars(RunSettlementJob)
    /\ WF_vars(SettlementJobPass({}, {}))

SpecJob == Init /\ [][NextJob]_vars /\ JobFairness

\* the scheduler on its own: registrations, removals, the start, fire
\* times passing, the scheduler thread processing them and job calls
\* returning.  The ledger stays as it is: the jobs run without an
\* application context.
SchedAddEspnUpdateJob ==
    \E job_id \in JobIdInputs, minutes \in IntervalInputs :
        /\ Len(sched.pending) < MaxPending
        /\ sched' = AddEspnUpdateJob(sched, job_id, minutes).sched

SchedAddSettlementJob ==
    \E job_id \in JobIdInputs, minutes \in IntervalInputs :
        /\ Len(sched.pending) < MaxPending
        /\ sched' = AddSettlementJob(sched, job_id, minutes).sched

SchedRemoveJob ==
    \E job_id \in JobIdInputs : sched' = RemoveJob(sched, job_id).sched

SchedStart == sched' = Start(sched)

\* a fire time of stored job i passes
TriggerFires ==
    \E i \in JobIds :
        /\ sched.state = "running"
        /\ Positions(sched.store, i) # {}
        /\ sched.due[i] < MaxDue
        /\ sched' = [sched EXCEPT !.due[i] = @ + 1]

\* the scheduler thread wakes up
SchedProcessJobs ==
    /\ sched.state = "running"
    /\ \E i \in JobIds : sched.due[i] > 0
    /\ sched' = ProcessJobs(sched)

\* a call of a job function returns
JobReturns ==
    \E i \in JobIds, outcome \in WorkOutcomes :
        /\ sched.todo[i] > 0
        /\ sched' = JobCallEnds(sched, i, outcome)

\* the ledger and the requests, which the scheduler's steps leave alone
ledger == <<users, games, bets, txns, now, reqs, catalog, fetch>>

NextSched ==
    \/ SchedAddEspnUpdateJob /\ UNCHANGED ledger
    \/ SchedAddSettlementJob /\ UNCHANGED ledger
    \/ SchedRemoveJob /\ UNCHANGED ledger
    \/ SchedStart /\ UNCHANGED ledger
    \/ TriggerFires /\ UNCHANGED ledger
    \/ SchedProcessJobs /\ UNCHANGED ledger
    \/ JobReturns /\ UNCHANGED ledger

SpecSched == Init /\ [][NextSched]_vars

\* update_games_in_database is handed a parsed batch
DoUpdateGamesInDatabase ==
    \E batch \in Batches :
        /\ catalog' = UpdateGamesInDatabase(catalog, batch, now).games
        /\ UNCHANGED <<users, games, bets, txns, now, reqs, sched, fetch>>

\* The synchronizer at work on the Game table, while time passes.
NextSync ==
    \/ Tick /\ UNCHANGED services
    \/ DoUpdateGamesInDatabase

SpecSync == Init /\ [][NextSync]_vars

\* _make_request is called and the server answers its attempts
DoMakeRequest ==
    \E responses \in ResponseInputs :
        /\ fetch' = MakeRequest(responses)
        /\ UNCHANGED <<users, games, bets, txns, now, reqs, sched, catalog>>

\* The provider is asked for data, again and again.
NextFetch ==
    \/ Tick /\ UNCHANGED services
    \/ DoMakeRequest

SpecFetch == Init /\ [][NextFetch]_vars

\* ============================================================ properties
SettlementTypes == {"bet_won", "bet_lost", "bet_push"}

\* the settlement transactions written for bet bid
SettlementTxns(bid) ==
    { i \in 1..Len(txns) :
        txns[i].bet_id = bid /\ txns[i].type \in SettlementTypes }

\* C1: settle_bet on a bet whose status is won, lost, push or cancelled
\* returns a failure and leaves users, games, bets and transactions as they
\* were, whether or not storage would fail; and no bet ever has more than
\* one settlement transaction (it is paid out at most once).
C1_SettleTerminalRejected ==
    /\ \A bid \in BetIds(Store), fail \in BOOLEAN :
          bets[bid].status \in TerminalStatuses
            => SettleBet(Store, bid, fail) = [db |-> Store, ok |-> FALSE]
    /\ \A bid \in BetIds(Store) : Cardinality(SettlementTxns(bid)) <= 1

\* a bet that was settled as won on a game that is still final, and that
\* settle_bet now refuses
C1_Witness ==
    \E bid \in BetIds(Store) :
        /\ bets[bid].status = "won"
        /\ Cardinality(SettlementTxns(bid)) = 1
        /\ games[bets[bid].game_id].status = "final"
        /\ ~SettleBet(Store, bid, FALSE).ok

C3_AtMostOneTakesEffect ==
    ~ /\ reqs[Settler].pc = "done" /\ reqs[Settler].ok
      /\ reqs[Canceller].pc = "done" /\ reqs[Canceller].ok
      /\ reqs[Settler].bet = reqs[Canceller].bet

\* the transaction a call appended to the log, when it appended exactly one
Appended(db) == db.txns[Len(db.txns)]
AppendedOne(db) ==
    /\ Len(db.txns) = Len(txns) + 1
    /\ SubSeq(db.txns, 1, Len(txns)) = txns

\* a successful placement debited w and logged one bet_placed of -w
PlacedAndLogged(r, u, w) ==
    r.ok => /\ r.db.users[u].balance = users[u].balance - w
            /\ AppendedOne(r.db)
            /\ Appended(r.db).type = "bet_placed"
            /\ Appended(r.db).amount = 0 - w

\* C4: every successful placement of a wager W, through
\* bet_validator.create_bet, validate_and_create_bet or
\* bet_service.create_bet, lowers the balance by W and creates exactly one
\* bet_placed Transaction of amount -W.
C4_PlacementDebitsAndLogs ==
    \A u \in Users, g \in Games, w \in Wagers :
        /\ \A team \in {HomeTeam, AwayTeam} :
              PlacedAndLogged(ValidatorCreateBet(Store, u, g, team, w, "none"),
                              u, w)
        /\ \A team \in TeamInputs :
              /\ PlacedAndLogged(
                    ValidateAndCreateBet(Store, u, g, team, w, now, "none"),
                    u, w)
              /\ PlacedAndLogged(
                    ServiceCreateBet(Store, u, g, team, w, now, FALSE), u, w)

\* the five mutations of a placement are all in the store r.db
AllPersisted(r, u, g, team, w) ==
    /\ r.db.users[u].balance = users[u].balance - w
    /\ r.db.users[u].total_bets = users[u].total_bets + 1
    /\ Len(r.db.bets) = Len(bets) + 1
    /\ r.db.bets[Len(bets) + 1].status = "pending"
    /\ r.db.bets[Len(bets) + 1].wager_amount = w
    /\ r.db.games[g].total_bets = games[g].total_bets + 1
    /\ r.db.games[g].total_wagered = games[g].total_wagered + w
    /\ AppendedOne(r.db)
    /\ Appended(r.db).type = "bet_placed"

\* C5: create_bet is all-or-nothing: when it fails, also by a failure of
\* its first or of its second commit, the store is as before the call;
\* when it returns a bet, the debit, the total_bets increment, the Bet, the
\* game counters and the bet_placed Transaction are all persisted.
C5_PlacementAllOrNothing ==
    \A u \in Users, g \in Games, team \in {HomeTeam, AwayTeam}, w \in Wagers,
       fail \in {"none", "first", "second"} :
        LET r == ValidatorCreateBet(Store, u, g, team, w, fail)
        IN /\ ~r.ok => r.db = Store
           /\ r.ok => AllPersisted(r, u, g, team, w)

\* the non-cancelled bets on game g whose pick is on side
\* ("all", "home": the home team, "away": any other pick)
Counted(g, side) ==
    { i \in 1..Len(bets) :
        /\ bets[i].game_id = g
        /\ bets[i].status # "cancelled"
        /\ \/ side = "all"
           \/ side = "home" /\ bets[i].team_picked = HomeTeam
           \/ side = "away" /\ bets[i].team_picked # HomeTeam }

\* the sum of the wagers of the bets ids
RECURSIVE WagerSum(_)
WagerSum(ids) ==
    IF ids = {} THEN 0
    ELSE LET i == CHOOSE x \in ids : TRUE
         IN bets[i].wager_amount + WagerSum(ids \ {i})

\* C6: each game's six counters equal the count and the wager sum of its
\* non-cancelled bets, overall and per side, and are never negative, after
\* any sequence of placements, cancellations and settlements.
C6_CountersMatchBets ==
    \A g \in Games :
        /\ games[g].total_bets = Cardinality(Counted(g, "all"))
        /\ games[g].total_wagered = WagerSum(Counted(g, "all"))
        /\ games[g].home_bets = Cardinality(Counted(g, "home"))
        /\ games[g].home_wagered = WagerSum(Counted(g, "home"))
        /\ games[g].away_bets = Cardinality(Counted(g, "away"))
        /\ games[g].away_wagered = WagerSum(Counted(g, "away"))
        /\ games[g].total_bets >= 0 /\ games[g].total_wagered >= 0
        /\ games[g].home_bets >= 0 /\ games[g].home_wagered >= 0
        /\ games[g].away_bets >= 0 /\ games[g].away_wagered >= 0

\* C7: for every user winning_bets + losing_bets <= total_bets, whichever
\* path placed the bets.
C7_WinLossWithinTotal ==
    \A u \in Users :
        users[u].winning_bets + users[u].losing_bets <= users[u].total_bets

\* C8: a successful settle_bet raises the user's balance by potential_payout
\* when the bet is won, by the wager when it is a push, and leaves it
\* unchanged when it is lost.
C8_SettlementCredit ==
    \A bid \in BetIds(Store) :
        LET r == SettleBet(Store, bid, FALSE)
            bet == bets[bid]
            delta == r.db.users[bet.user_id].balance
                       - users[bet.user_id].balance
        IN r.ok =>
             /\ r.db.bets[bid].status \in {"won", "push", "lost"}
             /\ r.db.bets[bid].status = "won" => delta = bet.potential_payout
             /\ r.db.bets[bid].status = "push" => delta = bet.wager_amount
             /\ r.db.bets[bid].status = "lost" => delta = 0

\* a won bet whose settlement credited its payout: the bet_won transaction
\* of the bet records the balance before and after
C8_Witness ==
    \E bid \in BetIds(Store), i \in 1..Len(txns) :
        /\ bets[bid].status = "won"
        /\ txns[i].bet_id = bid
        /\ txns[i].type = "bet_won"
        /\ txns[i].balance_after - txns[i].balance_before
             = bets[bid].potential_payout
        /\ bets[bid].potential_payout > bets[bid].wager_amount

\* C9: settle_bet on a pending bet of a final game sets the status to push
\* when the game is a tie or has no winner, to won when the pick is the
\* winner, to lost otherwise; actual_payout is potential_payout, the wager
\* or 0; settled_at is set; exactly one Transaction bet_won / bet_push /
\* bet_lost is written, with that payout as amount and the bet as reference.
C9_SettlementOutcome ==
    \A bid \in BetIds(Store) :
        LET bet == bets[bid]
            game == games[bet.game_id]
            r == SettleBet(Store, bid, FALSE)
            status == IF game.is_tie \/ game.winner = NoTeam THEN "push"
                      ELSE IF bet.team_picked = game.winner THEN "won"
                      ELSE "lost"
            payout == IF status = "won" THEN bet.potential_payout
                      ELSE IF status = "push" THEN bet.wager_amount
                      ELSE 0
        IN bet.status = "pending" /\ game.status = "final" =>
             /\ r.ok
             /\ r.db.bets[bid].status = status
             /\ r.db.bets[bid].actual_payout = payout
             /\ r.db.bets[bid].settled_at # NoTime
             /\ AppendedOne(r.db)
             /\ Appended(r.db).type = "bet_" \o status
             /\ Appended(r.db).amount = payout
             /\ Appended(r.db).bet_id = bid

\* a push: a settled bet on a final game without a winner, refunded its
\* wager, with its bet_push transaction
C9_Witness ==
    \E bid \in BetIds(Store), i \in 1..Len(txns) :
        /\ bets[bid].status = "push"
        /\ bets[bid].actual_payout = bets[bid].wager_amount
        /\ bets[bid].settled_at = SomeTime
        /\ games[bets[bid].game_id].status = "final"
        /\ games[bets[bid].game_id].winner = NoTeam
        /\ txns[i].bet_id = bid
        /\ txns[i].type = "bet_push"
        /\ txns[i].amount = bets[bid].wager_amount

\* a cancellation c of the bet bid that the placement p of wager w by u on
\* g has just created: the bet is cancelled, w is refunded, the game
\* counters are back to their values before the placement
Reverses(c, p, u, g, w, bid) ==
    c.ok =>
      /\ c.db.bets[bid].status = "cancelled"
      /\ c.db.bets[bid].settled_at # NoTime
      /\ c.db.users[u].balance = p.db.users[u].balance + w
      /\ c.db.games[g] = games[g]
      /\ c.db.users[u].winning_bets = p.db.users[u].winning_bets
      /\ c.db.users[u].losing_bets = p.db.users[u].losing_bets

\* C10: every successful cancellation of a pending bet of wager W, by
\* either cancel_bet or by the admin, sets the bet to cancelled with
\* settled_at set, refunds W, decreases the game's total and side counters
\* by exactly what the placement added, and leaves winning_bets and
\* losing_bets unchanged.
C10_CancellationReversesPlacement ==
    \A u \in Users, g \in Games, team \in {HomeTeam, AwayTeam}, w \in Wagers :
        \A p \in { ValidateAndCreateBet(Store, u, g, team, w, now, "none"),
                    ServiceCreateBet(Store, u, g, team, w, now, FALSE) } :
            p.ok =>
              LET bid == Len(p.db.bets)
              IN /\ Reverses(ValidatorCancelBet(p.db, u, bid, now, FALSE),
                             p, u, g, w, bid)
                 /\ Reverses(ServiceCancelBet(p.db, u, bid, now, FALSE),
                             p, u, g, w, bid)
                 /\ Reverses(AdminCancelBet(p.db, bid, FALSE),
                             p, u, g, w, bid)

\* the sum of the amounts of the first n transactions that belong to user u
RECURSIVE LedgerSum(_, _)
LedgerSum(u, n) ==
    IF n = 0 THEN 0
    ELSE LedgerSum(u, n - 1)
           + (IF txns[n].user_id = u THEN txns[n].amount ELSE 0)

\* C11: every change of a balance (placement, cancellation refund,
\* settlement payout) is recorded by a Transaction: each user's balance is
\* the starting balance plus the sum of the amounts of the user's
\* Transactions.
C11_BalanceMatchesLedger ==
    \A u \in Users :
        users[u].balance = users[u].starting_balance + LedgerSum(u, Len(txns))

\* the minutes around the betting cutoff and the kickoff
CutoffTimes == (GameTime - CutoffMinutes - 2)..(GameTime + 1)

\* C12: Game.is_bettable and bet_service.validate_game_timing admit a bet
\* exactly when the game is scheduled and the time is strictly before
\* game_time minus 5 minutes: rejected at the cutoff instant, admitted one
\* minute earlier.
C12_CutoffExclusive ==
    /\ \A st \in GameStatuses, t \in CutoffTimes \cup {now} :
          LET game == [NewGame EXCEPT !.status = st]
              open == st = "scheduled" /\ t < game.game_time - CutoffMinutes
          IN /\ IsBettable(game, t) <=> open
             /\ ServiceTimingOk(game, t) <=> open
    /\ \A g \in Games :
          LET open == /\ games[g].status = "scheduled"
                      /\ now < games[g].game_time - CutoffMinutes
          IN /\ IsBettable(games[g], now) <=> open
             /\ ServiceTimingOk(games[g], now) <=> open
             /\ ~IsBettable([games[g] EXCEPT !.status = "scheduled"],
                            games[g].game_time - CutoffMinutes)
             /\ IsBettable([games[g] EXCEPT !.status = "scheduled"],
                           games[g].game_time - CutoffMinutes - 1)

\* the clock is at the cutoff instant of a scheduled game that took a bet
\* one minute earlier: both validators now refuse
C12_Witness ==
    \E g \in Games :
        /\ games[g].status = "scheduled"
        /\ now = games[g].game_time - CutoffMinutes
        /\ ~IsBettable(games[g], now)
        /\ ~ServiceTimingOk(games[g], now)
        /\ IsBettable(games[g], now - 1)
        /\ \E i \in 1..Len(bets) : bets[i].game_id = g

\* the pending bets of user u on game g
PendingOf(u, g) ==
    { i \in 1..Len(bets) :
        bets[i].user_id = u /\ bets[i].game_id = g
          /\ bets[i].status = "pending" }

\* C13: there is at most one pending bet per (user, game), also when two
\* placement requests of one user for one game interleave their duplicate
\* check and their bet creation.
C13_OnePendingPerUserGame ==
    \A u \in Users, g \in Games : Cardinality(PendingOf(u, g)) <= 1

\* C14: the duplicate check rejects a placement exactly when the user holds
\* a pending bet on the game; after that bet is cancelled or settled a new
\* placement of the user on the game passes the check.
C14_DuplicateOnlyPending ==
    \A u \in Users, g \in Games :
        /\ NoPendingBet(Store, u, g) <=> PendingOf(u, g) = {}
        /\ \A team \in {HomeTeam, AwayTeam}, w \in Wagers :
              /\ ValidatorAmountOk(w, users[u]) /\ IsBettable(games[g], now)
                   => (ValidateAndCreateBet(Store, u, g, team, w, now, "none").ok
                         <=> PendingOf(u, g) = {})
              /\ ServiceAmountOk(w, users[u]) /\ ServiceTimingOk(games[g], now)
                   => (ServiceCreateBet(Store, u, g, team, w, now, FALSE).ok
                         <=> PendingOf(u, g) = {})

\* a user whose bet on a game was cancelled or settled places again on that
\* game: the check passes and both entry points accept
C14_Witness ==
    \E i \in 1..Len(bets), w \in Wagers :
        LET u == bets[i].user_id
            g == bets[i].game_id
        IN /\ bets[i].status \in TerminalStatuses
           /\ PendingOf(u, g) = {}
           /\ NoPendingBet(Store, u, g)
           /\ ValidateAndCreateBet(Store, u, g, HomeTeam, w, now, "none").ok
           /\ ServiceCreateBet(Store, u, g, HomeTeam, w, now, FALSE).ok

\* the amounts a request can carry, from a negative one to one above the
\* largest balance
AmountInputs == (0 - 1)..(InitialBalance + MaxBets * MaxWager * PayoutMultiplier + 1)

\* C15: both amount validations accept a wager exactly when it is greater
\* than 0, at least MIN_BET_AMOUNT and at most the user's balance (a wager
\* equal to the balance is accepted).
C15_AmountRule ==
    \A u \in Users, amount \in AmountInputs :
        LET accepted == /\ amount > 0
                        /\ amount >= MinBetAmount
                        /\ amount <= users[u].balance
        IN /\ ValidatorAmountOk(amount, users[u]) <=> accepted
           /\ ServiceAmountOk(amount, users[u]) <=> accepted

\* the stale-data allowance: the game started more than StaleDays whole
\* days ago
Stale(game, t) ==
    t >= game.game_time /\ (t - game.game_time) \div MinutesPerDay > StaleDays

\* the result r of a self-service cancellation of a pending bet on game at
\* time t respects the window: refused without any change from the cutoff
\* on (stale data excepted), accepted before the cutoff
RespectsWindow(r, game, t) ==
    /\ t >= game.game_time - CutoffMinutes /\ ~Stale(game, t)
          => ~r.ok /\ r.db = Store
    /\ t < game.game_time - CutoffMinutes => r.ok

\* C16: a self-service cancel_bet of a pending bet is refused, with
\* balance, bet and game counters unchanged, from game_time minus 5 minutes
\* on, the stale-data allowance excepted, and is accepted strictly before
\* game_time minus 5 minutes.
C16_CancelWindow ==
    \A bid \in BetIds(Store) :
        LET bet == bets[bid]
            game == games[bet.game_id]
        IN bet.status = "pending" =>
             /\ RespectsWindow(
                   ValidatorCancelBet(Store, bet.user_id, bid, now, FALSE),
                   game, now)
             /\ RespectsWindow(
                   ServiceCancelBet(Store, bet.user_id, bid, now, FALSE),
                   game, now)

\* C17: the admin cancellation succeeds for every pending bet whatever the
\* game's time and status, and is refused without any mutation for every
\* bet that is not pending.
C17_AdminCancelNoWindow ==
    \A bid \in BetIds(Store) :
        LET r == AdminCancelBet(Store, bid, FALSE)
        IN IF bets[bid].status = "pending"
           THEN /\ r.ok
                /\ r.db.bets[bid].status = "cancelled"
                /\ r.db.users[bets[bid].user_id].balance
                     = users[bets[bid].user_id].balance + bets[bid].wager_amount
           ELSE ~r.ok /\ r.db = Store

\* a pending bet on a game that is past kickoff and no longer scheduled:
\* the self-service cancellation is refused, the admin one goes through
C17_Witness ==
    \E bid \in BetIds(Store) :
        /\ bets[bid].status = "pending"
        /\ now >= games[bets[bid].game_id].game_time
        /\ games[bets[bid].game_id].status \in {"in_progress", "final"}
        /\ ~ValidatorCancelBet(Store, bets[bid].user_id, bid, now, FALSE).ok
        /\ AdminCancelBet(Store, bid, FALSE).ok
        /\ AdminCancelBet(Store, bid, FALSE).db.bets[bid].status = "cancelled"

\* C18: a self-service cancel_bet is refused, with no change to any
\* balance, bet, game counter or Transaction, when the bet does not exist,
\* belongs to another user than the requester, or is not pending.
C18_CancelRefusals ==
    \A u \in Users, bid \in 1..(MaxBets + 1), fail \in BOOLEAN :
        (\/ bid \notin BetIds(Store)
         \/ bets[bid].user_id # u
         \/ bets[bid].status # "pending")
          => /\ ValidatorCancelBet(Store, u, bid, now, fail)
                  = [db |-> Store, ok |-> FALSE]
             /\ ServiceCancelBet(Store, u, bid, now, fail)
                  = [db |-> Store, ok |-> FALSE]

\* before the cutoff: a pending bet that its owner may cancel and another
\* user may not, and a settled or cancelled bet that its owner may not cancel
C18_Witness ==
    \E bid \in BetIds(Store), other \in BetIds(Store), u \in Users :
        /\ bets[bid].status = "pending"
        /\ bets[bid].user_id # u
        /\ ValidatorCancelBet(Store, bets[bid].user_id, bid, now, FALSE).ok
        /\ ~ValidatorCancelBet(Store, u, bid, now, FALSE).ok
        /\ bets[other].status \in TerminalStatuses
        /\ ~ValidatorCancelBlocked(games[bets[other].game_id], now)
        /\ ~ValidatorCancelBet(Store, bets[other].user_id, other, now, FALSE).ok

\* the store with the status of game g replaced by st
WithGameStatus(g, st) == [Store EXCEPT !.games[g].status = st]

\* C19: settle_bet on a bet whose game is not final (scheduled,
\* in_progress, postponed or cancelled) fails and leaves the bet pending and
\* the user's balance, statistics and Transactions unchanged; so does
\* settle_bet on a missing bet id.
C19_SettleNeedsFinalGame ==
    \A bid \in 1..(MaxBets + 1), fail \in BOOLEAN :
        IF bid \notin BetIds(Store)
        THEN SettleBet(Store, bid, fail) = [db |-> Store, ok |-> FALSE]
        ELSE /\ games[bets[bid].game_id].status # "final"
                  => SettleBet(Store, bid, fail) = [db |-> Store, ok |-> FALSE]
             /\ \A st \in GameStatuses \ {"final"} :
                  LET db == WithGameStatus(bets[bid].game_id, st)
                  IN SettleBet(db, bid, fail) = [db |-> db, ok |-> FALSE]

\* a pending bet on a game under way, past kickoff: settle_bet refuses it,
\* and would settle it were the game final
C19_Witness ==
    \E bid \in BetIds(Store) :
        /\ bets[bid].status = "pending"
        /\ games[bets[bid].game_id].status = "in_progress"
        /\ now >= games[bets[bid].game_id].game_time
        /\ ~SettleBet(Store, bid, FALSE).ok
        /\ SettleBet(WithGameStatus(bets[bid].game_id, "final"), bid, FALSE).ok

\* the bets of user u that have status st
BetsOf(u, st) ==
    { i \in 1..Len(bets) : bets[i].user_id = u /\ bets[i].status = st }

\* the largest number of a set, 0 for the empty set
MaxOf(S) == IF S = {} THEN 0 ELSE CHOOSE x \in S : \A y \in S : y <= x

\* C20: after any settlements, each user's winning_bets and losing_bets
\* count the user's won and lost bets, total_losses is the wager sum of the
\* lost bets, biggest_loss the largest lost wager and biggest_win the
\* largest net gain (payout minus wager) of a won bet; pushes count in none.
C20_StatisticsMatchBets ==
    \A u \in Users :
        /\ users[u].winning_bets = Cardinality(BetsOf(u, "won"))
        /\ users[u].losing_bets = Cardinality(BetsOf(u, "lost"))
        /\ users[u].total_losses = WagerSum(BetsOf(u, "lost"))
        /\ users[u].biggest_loss
             = MaxOf({ bets[i].wager_amount : i \in BetsOf(u, "lost") })
        /\ users[u].biggest_win
             = MaxOf({ bets[i].actual_payout - bets[i].wager_amount :
                        i \in BetsOf(u, "won") })

\* the bet a successful placement r added to the store is pending and
\* promises the wager w times PAYOUT_MULTIPLIER
PlacedAtMultiplier(r, w) ==
    r.ok => /\ Len(r.db.bets) = Len(bets) + 1
            /\ r.db.bets[Len(bets) + 1].status = "pending"
            /\ r.db.bets[Len(bets) + 1].wager_amount = w
            /\ r.db.bets[Len(bets) + 1].potential_payout = w * PayoutMultiplier

\* every placement path creates a pending bet at the configured multiplier
PlacementsAtMultiplier ==
    \A u \in Users, g \in Games, w \in Wagers :
        /\ \A team \in {HomeTeam, AwayTeam} :
              PlacedAtMultiplier(
                  ValidatorCreateBet(Store, u, g, team, w, "none"), w)
        /\ \A team \in TeamInputs :
              /\ PlacedAtMultiplier(
                    ValidateAndCreateBet(Store, u, g, team, w, now, "none"), w)
              /\ PlacedAtMultiplier(
                    ServiceCreateBet(Store, u, g, team, w, now, FALSE), w)

\* C21: on every placement path the created bet is pending with
\* potential_payout = wager * PAYOUT_MULTIPLIER, and no later step changes
\* the potential_payout of a bet.
C21_PayoutMultiplier ==
    /\ [](/\ PlacementsAtMultiplier
          /\ \A i \in 1..Len(bets) :
                bets[i].potential_payout
                  = bets[i].wager_amount * PayoutMultiplier)
    /\ [][\A i \in 1..Len(bets) :
             /\ i <= Len(bets')
             /\ bets'[i].potential_payout = bets[i].potential_payout]_vars

\* a bet placed through bet_service (its owner's total_bets was never
\* raised) and a bet placed through bet_validator (logged by a bet_placed
\* Transaction), one of them settled since, both at the multiplier
C21_Witness ==
    \E i \in 1..Len(bets), j \in 1..Len(bets), k \in 1..Len(txns) :
        /\ users[bets[i].user_id].total_bets = 0
        /\ txns[k].type = "bet_placed" /\ txns[k].bet_id = j
        /\ bets[i].potential_payout = bets[i].wager_amount * PayoutMultiplier
        /\ bets[j].potential_payout = bets[j].wager_amount * PayoutMultiplier
        /\ bets[i].potential_payout > bets[i].wager_amount
        /\ \/ bets[i].status \in {"won", "lost", "push"}
           \/ bets[j].status \in {"won", "lost", "push"}

\* the sets of bet ids whose commit may fail during one settlement pass
PassInputs == SUBSET BetIdInputs

\* the bets a settlement pass is to settle: pending, on a final game
ToSettle(db) ==
    { i \in BetIds(db) :
        /\ db.bets[i].status = "pending"
        /\ db.games[db.bets[i].game_id].status = "final" }

\* the settlement transactions of bet bid in store db
SettlementTxnsIn(db, bid) ==
    { i \in 1..Len(db.txns) :
        db.txns[i].bet_id = bid /\ db.txns[i].type \in SettlementTypes }

CommitFailures == {"db", "other"}

\* C23: when the commit inside settle_bet fails, for whatever reason,
\* settle_bet reports failure and nothing of the bet's settlement is
\* stored; and after a later successful commit of another settlement in the
\* same session the failed bet is still pending, has no settlement
\* transaction, and its user (when not the other bet's user) is unchanged.
C23_FailedCommitDiscarded ==
    \A bid \in ToSettle(Store), other \in BetIdInputs, fail \in CommitFailures :
        LET r == SettleBetIn([db |-> Store, work |-> Store], bid, fail)
            later == SettleBetIn([db |-> r.db, work |-> r.work], other, "none")
            u == Store.bets[bid].user_id IN
        /\ ~r.ok
        /\ r.db = Store
        /\ (other # bid /\ later.ok) =>
              /\ later.db.bets[bid] = Store.bets[bid]
              /\ SettlementTxnsIn(later.db, bid) = {}
              /\ (Store.bets[other].user_id # u =>
                    later.db.users[u] = Store.users[u])

\* the placements through validate_and_create_bet recorded for game g: the
\* bet_placed transactions whose bet is on g
PlacedTxns(g) ==
    { i \in 1..Len(txns) :
        txns[i].type = "bet_placed" /\ bets[txns[i].bet_id].game_id = g }

\* the bets of user u
BetsBy(u) == { i \in 1..Len(bets) : bets[i].user_id = u }

\* C24: when placement requests interleave (on one game by different users,
\* or of one user), no update is lost: as after any serial execution of the
\* placements, each game's bet counter and wagered total account for every
\* placement recorded on the game, each user's balance is the starting
\* balance less the wagers of all the user's bets, and total_bets counts
\* every recorded placement of the user.
C24_NoLostUpdate ==
    /\ \A g \in Games :
          /\ games[g].total_bets = Cardinality(PlacedTxns(g))
          /\ games[g].total_wagered
               = WagerSum({ txns[i].bet_id : i \in PlacedTxns(g) })
    /\ \A u \in Users :
          /\ users[u].balance = InitialBalance - WagerSum(BetsBy(u))
          /\ users[u].total_bets
               = Cardinality({ i \in 1..Len(txns) :
                     txns[i].type = "bet_placed" /\ txns[i].user_id = u })

\* bet bid is pending on a game that is final
AwaitsSettlement(bid) ==
    /\ bid \in BetIds(Store)
    /\ bid \in ToSettle(Store)

\* bet bid is won, lost or push
IsSettled(bid) ==
    /\ bid \in BetIds(Store)
    /\ bets[bid].status \in {"won", "lost", "push"}

\* C25: while the settlement job keeps firing and its commits eventually
\* succeed, every bet that is pending on a final game is eventually won,
\* lost or push, unless its game stops being final; a bet that a pass left
\* pending is taken up again by a later pass.
C25_PendingEventuallySettled ==
    \A bid \in BetIdInputs :
        AwaitsSettlement(bid) ~> (IsSettled(bid) \/ ~AwaitsSettlement(bid))

\* a reason of the claim's list rejects the placement of w on team for g by u
RejectedByRule(u, g, team, w) ==
    \/ w <= 0
    \/ w > users[u].balance
    \/ now >= games[g].game_time - CutoffMinutes
    \/ team \notin {HomeTeam, AwayTeam}
    \/ PendingOf(u, g) # {}

\* the amounts a placement of u is tried with: negative, zero, below the
\* minimum, the usual wager, and one unit above the balance
PlacementAmounts(u) ==
    {0 - 1, 0, MinBetAmount - 1, users[u].balance + 1} \cup Wagers

\* C26: a placement that validation rejects (non-positive amount, amount
\* above the balance, at or after the cutoff, a team that does not play,
\* a pending bet of the user on the game, or any other refusal of the
\* validators) returns no bet and leaves users, games, bets and
\* transactions exactly as they were, on both placement paths and whatever
\* storage would have done.
C26_RejectedPlacementChangesNothing ==
    \A u \in Users, g \in Games, team \in TeamInputs :
      \A w \in PlacementAmounts(u) :
        LET unchanged == [db |-> Store, ok |-> FALSE] IN
        /\ \A fail \in {"none", "first", "second"} :
              (RejectedByRule(u, g, team, w)
                 \/ ~ValidateBet(Store, u, g, team, w, now))
                => ValidateAndCreateBet(Store, u, g, team, w, now, fail)
                     = unchanged
        /\ \A fail \in BOOLEAN :
              (RejectedByRule(u, g, team, w)
                 \/ ~ValidateBetComprehensive(Store, u, g, team, w, now))
                => ServiceCreateBet(Store, u, g, team, w, now, fail)
                     = unchanged

\* a user who holds a pending bet on a game that still takes bets asks for
\* a second one with an amount the balance covers: the only objection is
\* the duplicate, and both paths refuse
C26_Witness ==
    \E u \in Users, g \in Games, w \in Wagers :
        /\ PendingOf(u, g) # {}
        /\ w <= users[u].balance
        /\ ServiceAmountOk(w, users[u])
        /\ ServiceTimingOk(games[g], now)
        /\ IsBettable(games[g], now)
        /\ ~ServiceCreateBet(Store, u, g, HomeTeam, w, now, FALSE).ok
        /\ ~ValidateAndCreateBet(Store, u, g, HomeTeam, w, now, "none").ok

\* job i is registered
Registered(s, i) == Positions(GetJobs(s), i) # {}

\* C27: a job never has two instances running and a running instance has
\* at most one call to make: when the scheduler processes a job whose
\* instance is still running, no second instance starts and nothing is
\* queued for it, and when several fire times of a job have passed, one
\* call is started for all of them.
C27_OneInstancePerJob ==
    \A i \in JobIds :
        LET r == ProcessJobs(sched) IN
        /\ sched.instances[i] <= 1 /\ sched.todo[i] <= 1
        /\ r.instances[i] <= 1 /\ r.todo[i] <= 1
        /\ r.due[i] = 0
        /\ sched.instances[i] = 1 =>
              r.instances[i] = 1 /\ r.todo[i] = sched.todo[i]

\* two jobs are stored, one is running while all its fire times have
\* passed again, the other one has missed all its fire times
C27_Witness ==
    \E i \in JobIds, j \in JobIds :
        /\ sched.state = "running"
        /\ sched.instances[i] = 1 /\ sched.due[i] = MaxDue
        /\ sched.instances[j] = 0 /\ sched.due[j] = MaxDue
        /\ Registered(sched, i) /\ Registered(sched, j)
        /\ ProcessJobs(sched).todo[j] = 1

\* C28: a call of a job function never ends with an exception: when the
\* work raises, the wrapper returns a failure result; after that call the
\* scheduler is in the state it was in, the same jobs are registered, and
\* every stored job without a running instance, the failed one included,
\* is started at its next fire time.
C28_JobFailureContained ==
    /\ \A outcome \in WorkOutcomes : SafeJob(outcome) # "raises"
    /\ SafeJob("raises") = "caught"
    /\ \A i \in JobIds :
          /\ sched.last_result[i] # "raises"
          /\ sched.todo[i] > 0 =>
                LET r == JobCallEnds(sched, i, "raises") IN
                /\ r.last_result[i] = "caught"
                /\ r.state = sched.state
                /\ GetJobs(r) = GetJobs(sched)
                /\ \A j \in JobIds :
                      (r.state = "running" /\ Positions(r.store, j) # {}
                         /\ r.instances[j] = 0)
                        => ProcessJobs([r EXCEPT !.due[j] = 1]).instances[j] = 1

\* the last call of a job ended in the handler of its wrapper, the job is
\* still stored and running again, and another job is running too
C28_Witness ==
    \E i \in JobIds, j \in JobIds :
        /\ i # j
        /\ sched.last_result[i] = "caught"
        /\ sched.state = "running"
        /\ Positions(sched.store, i) # {}
        /\ sched.instances[i] = 1
        /\ sched.instances[j] = 1

\* job is on the job list
Listed(s, job) == \E k \in 1..Len(GetJobs(s)) : GetJobs(s)[k] = job

\* C29: add_espn_update_job and add_settlement_job raise and leave the
\* scheduler as it was when the job id is empty, blank or None or the
\* interval is zero or negative; otherwise they do not raise and the job
\* is on the job list under that id with that interval.
C29_RegistrationValidated ==
    \A job_id \in JobIdInputs, minutes \in IntervalInputs :
        LET bad == job_id \in {"", " ", NoneId} \/ minutes <= 0
            e == AddEspnUpdateJob(sched, job_id, minutes)
            t == AddSettlementJob(sched, job_id, minutes)
        IN IF bad
           THEN /\ e.raised /\ e.sched = sched
                /\ t.raised /\ t.sched = sched
           ELSE /\ ~e.raised
                /\ Listed(e.sched, NewJob("espn_update", job_id, minutes))
                /\ ~t.raised
                /\ Listed(t.sched, NewJob("settlement", job_id, minutes))

\* a job is registered; a registration with a blank id and one with a
\* zero interval are refused, one with a new id is accepted
C29_Witness ==
    \E i \in JobIds, j \in JobIds :
        /\ Registered(sched, i) /\ ~Registered(sched, j)
        /\ AddEspnUpdateJob(sched, " ", 1).raised
        /\ AddSettlementJob(sched, j, 0).raised
        /\ Registered(AddSettlementJob(sched, j, 1).sched, j)

\* C30: the job list never holds two jobs with one id: registering under
\* a listed id replaces the listed job; remove_job of a listed id returns
\* True and the id is no longer listed, remove_job of an id that is not
\* listed returns False and changes nothing.
C30_OneJobPerId ==
    \A i \in JobIds :
        /\ Cardinality(Positions(GetJobs(sched), i)) <= 1
        /\ LET r == RemoveJob(sched, i) IN
           IF Registered(sched, i)
           THEN r.result /\ ~Registered(r.sched, i)
           ELSE ~r.result /\ r.sched = sched
        /\ \A minutes \in 1..MaxInterval :
              Registered(sched, i) =>
                LET r == AddSettlementJob(sched, i, minutes).sched IN
                /\ Len(GetJobs(r)) = Len(GetJobs(sched))
                /\ Listed(r, NewJob("settlement", i, minutes))

\* C31: update_games_in_database never creates a second Game for an
\* external event id: after a batch there is exactly one Game for every
\* external id the batch carried and never more than one for any id, and
\* applying the same batch a second time, then or later, leaves the table
\* exactly as the first application left it.
C31_OneGamePerIdAndIdempotent ==
    \A batch \in Batches, t \in TimePoints :
        t >= now =>
            LET first == UpdateGamesInDatabase(catalog, batch, now).games
                second == UpdateGamesInDatabase(first, batch, t).games
            IN  /\ \A e \in ExternalIds : Cardinality(RowsOf(first, e)) <= 1
                /\ \A k \in 1..Len(batch) :
                       Cardinality(RowsOf(first, batch[k].espn_game_id)) = 1
                /\ second = first

\* every event the parser can hand over for external id e: any status
\* name, any scores, with or without a date
EventsOf(e) ==
    [ espn_game_id : {e},
      status : StatusNames \cup {"In Progress", "Postponed", "Cancelled"},
      home_score : 0..2, away_score : 0..2, game_date : DateInputs ]

\* winner, is_tie, status and scores of a Game row agree
WinnerAgrees(g) ==
    /\ g.winner # NoTeam => g.status = "final"
    /\ g.status = "final" =>
          /\ g.winner = HomeTeam <=> g.home_score > g.away_score
          /\ g.winner = AwayTeam <=> g.away_score > g.home_score
          /\ (g.winner = NoTeam /\ g.is_tie) <=> g.home_score = g.away_score
    /\ g.is_tie => g.status = "final"

\* C32: in every Game the synchronizer writes, winner is set only when the
\* status is final; when the status is final, winner is the side with the
\* strictly higher score, and winner is null with is_tie true exactly when
\* the two scores are equal.  Checked for every row of the table, and for
\* the row any further event would create or any existing row would
\* become.
C32_WinnerAgreesWithScores ==
    /\ \A i \in 1..Len(catalog) : WinnerAgrees(catalog[i])
    /\ \A e \in ExternalIds : \A ev \in EventsOf(e) :
          /\ ev.game_date # NoDate => WinnerAgrees(CreateNewGame(ev, now))
          /\ \A i \in 1..Len(catalog) :
                WinnerAgrees(UpdateExistingRow(catalog[i], ev, now))

\* the table holds a final game won by the home side and a final tie, the
\* first of them updated from an earlier state
C32_Witness ==
    \E i, j \in 1..Len(catalog) :
        /\ catalog[i].status = "final" /\ catalog[i].winner = HomeTeam
        /\ catalog[i].home_score > catalog[i].away_score
        /\ catalog[i].updated_at > catalog[j].updated_at
        /\ catalog[j].status = "final" /\ catalog[j].winner = NoTeam
        /\ catalog[j].is_tie

\* the attempts of the last call that were answered with a body
Successful == { n \in 1..Len(fetch.responses) : fetch.responses[n] = "ok" }

\* C33: _make_request ends after at most max_retries (3) HTTP attempts,
\* a transport error, an HTTP error and a 429 each using up one attempt;
\* it returns the body of the first successful response, and raises
\* ESPNAPIError when no attempt succeeds.
C33_BodyOfFirstSuccessOrApiError ==
    fetch # NoFetch =>
        /\ fetch.attempts <= MaxRetries
        /\ IF Successful # {}
           THEN /\ fetch.result = "body"
                /\ fetch.body = FirstOf(Successful)
                /\ fetch.attempts = fetch.body
           ELSE /\ fetch.result = "ESPNAPIError"
                /\ fetch.attempts = MaxRetries

\* C34: a settlement pass changes only the bets that were pending on final
\* games, the balances and statistics of the users of those bets, and the
\* transaction log, to which it only appends settlement transactions of
\* those bets; every other bet (on a game that is not final, or already
\* won, lost, push or cancelled) and every Game record, its betting
\* counters included, is left as it was, whichever commits fail.
C34_PassTouchesOnlyItsBets ==
    \A failing \in PassInputs, raising \in PassInputs :
        LET r == SettleCompletedGames(Store, failing, raising).db
            mine == ToSettle(Store)
        IN  /\ r.games = games
            /\ Len(r.bets) = Len(bets)
            /\ \A i \in BetIds(Store) \ mine : r.bets[i] = bets[i]
            /\ \A u \in Users :
                  (\A i \in mine : bets[i].user_id # u) =>
                      r.users[u] = users[u]
            /\ Len(r.txns) >= Len(txns)
            /\ SubSeq(r.txns, 1, Len(txns)) = txns
            /\ \A k \in (Len(txns) + 1)..Len(r.txns) :
                  /\ r.txns[k].type \in SettlementTypes
                  /\ r.txns[k].bet_id \in mine
                  /\ r.txns[k].user_id = bets[r.txns[k].bet_id].user_id

\* a pass settles a bet and pays its user while a cancelled bet of the
\* other user and the counters of the game are there to be left alone
C34_Witness ==
    \E i \in ToSettle(Store), j \in BetIds(Store) :
        LET r == SettleCompletedGames(Store, {}, {}).db IN
        /\ bets[j].status = "cancelled"
        /\ bets[j].user_id # bets[i].user_id
        /\ games[bets[i].game_id].total_bets > 0
        /\ r.bets[i].status = "won"
        /\ r.users[bets[i].user_id].balance > users[bets[i].user_id].balance
        /\ Len(r.txns) = Len(txns) + 1

\* what an event says about a game, whatever its id and date
Results ==
    [ status : StatusNames \cup {"In Progress", "Postponed", "Cancelled"},
      home_score : 0..2, away_score : 0..2 ]

\* the columns of a Game that hold its result
ResultOf(g) ==
    <<g.status, g.home_score, g.away_score, g.winner, g.is_tie>>

\* the columns of a Game other than its result
RestOf(g) ==
    <<g.home_team, g.away_team, g.game_time, g.week, g.season,
      g.total_bets, g.total_wagered, g.home_bets, g.away_bets,
      g.home_wagered, g.away_wagered>>

\* C35: updating an existing Game from a provider event changes only its
\* scores, status, winner and is_tie (and its update timestamp): teams,
\* game_time, week, season and the six betting counters stay as they
\* were, for every event and every reachable game; and a step that
\* changes the result of a game leaves every Bet, user and transaction
\* as it was.
C35_UpdateKeepsRestOfGame ==
    /\ [](\A g \in Games : \A ev \in Results :
            RestOf(UpdateExistingGame(games[g], ev)) = RestOf(games[g]))
    /\ [][\A g \in Games :
            ResultOf(games'[g]) # ResultOf(games[g]) =>
                /\ RestOf(games'[g]) = RestOf(games[g])
                /\ bets' = bets /\ users' = users /\ txns' = txns]_vars

\* a game that took bets, one of them still pending, has been updated to
\* final by the synchronizer
C35_Witness ==
    \E g \in Games, i \in BetIds(Store) :
        /\ games[g].status = "final" /\ games[g].home_score > 0
        /\ games[g].total_bets > 0 /\ games[g].total_wagered > 0
        /\ bets[i].game_id = g /\ bets[i].status = "pending"

\* the sum of the actual payouts of the bets ids
RECURSIVE PayoutSum(_)
PayoutSum(ids) ==
    IF ids = {} THEN 0
    ELSE LET i == CHOOSE x \in ids : TRUE
         IN bets[i].actual_payout + PayoutSum(ids \ {i})

\* the bets of user u that were not cancelled, and those that paid
Staked(u) == { i \in BetsBy(u) : bets[i].status # "cancelled" }
Paid(u) == { i \in BetsBy(u) : bets[i].status \in {"won", "push"} }

C37_BalanceNeverNegative ==
    \A u \in Users : users[u].balance >= 0

\* two placements of one user have both been committed although each was
\* validated against the balance from before the other: the user's two
\* bets together exceed the starting balance
C37_Witness ==
    \E u \in Users :
        /\ \A w \in Placers : reqs[w].pc = "done" /\ reqs[w].ok
        /\ Cardinality(BetsBy(u)) = 2
        /\ \A i \in BetsBy(u) : bets[i].status = "pending"
        /\ WagerSum(BetsBy(u)) > users[u].starting_balance
        /\ users[u].balance >= 0

\* the bet as SettlementService finalizes it on game
ServiceSettled(bet, game) ==
    LET outcome == DetermineBetOutcome(bet, game)
    IN  SettledBet(bet, outcome, CalculatePayout(bet, outcome))

\* C38: for a pending bet on a final game written by the synchronizer,
\* Bet.settle(game.winner) gives the same status and the same
\* actual_payout as SettlementService's outcome followed by its payout,
\* whatever team the bet picked and whatever final result (home win, away
\* win, tie) the synchronizer wrote, over whatever the game held before.
C38_SettleAgreesWithService ==
    \A i \in BetIds(Store), team \in TeamInputs, ev \in Results :
        LET bet == [bets[i] EXCEPT !.team_picked = team]
            game == UpdateExistingGame(games[bet.game_id], ev)
        IN  (bets[i].status = "pending" /\ game.status = "final") =>
                /\ BetSettle(bet, game.winner).status
                       = ServiceSettled(bet, game).status
                /\ BetSettle(bet, game.winner).actual_payout
                       = ServiceSettled(bet, game).actual_payout

\* a pending bet on a game the synchronizer wrote as a final tie: both
\* ways of settling make it a push that returns the wager
C38_Witness ==
    \E i \in ToSettle(Store) :
        LET game == games[bets[i].game_id] IN
        /\ game.is_tie /\ game.winner = NoTeam
        /\ BetSettle(bets[i], game.winner).status = "push"
        /\ ServiceSettled(bets[i], game).status = "push"
        /\ BetSettle(bets[i], game.winner).actual_payout = bets[i].wager_amount

\* every balance is what the services make of the user's bets: the
\* starting balance, less the wagers of the bets not cancelled, plus the
\* payouts of the won and push bets
ProducedByServices ==
    \A u \in Users :
        users[u].balance =
            users[u].starting_balance - WagerSum(Staked(u)) + PayoutSum(Paid(u))

\* C39: recalculate_user_balances leaves unchanged the balance of every
\* user whose balance was produced by the services: whatever the history
\* of placements, cancellations and settlements (pending, won, lost, push
\* and cancelled bets), the balance it recomputes from starting_balance
\* and the bet records is the balance the user holds.
C39_RepairKeepsServiceBalances ==
    ProducedByServices => RecalculateUserBalances(Store).users = users
====
